---- MODULE Spec2Model ----
(***************************************************************************)
(* State-machine model of the Zuth TypeScript SDK: the Transport           *)
(* (ZuthClient, src/src/client.ts), the endpoint methods (ZuthAuth,        *)
(* src/src/auth.ts), the OAuth coordinator (ZuthOAuth, src/unnamed/        *)
(* part_000 and the older src/src/oauth.ts), the secure-value utilities    *)
(* (src/src/security.ts) and the Facade (Zuth, src/src/index.ts).          *)
(*                                                                         *)
(* JavaScript values: strings are TLA+ strings; null and undefined are the *)
(* two sentinels NULL and UNDEF; objects are records.  Every operation of  *)
(* the SDK is one action.  An asynchronous operation is three steps: the   *)
(* call (validation, request handed to axios), the request interceptor     *)
(* (axios runs it in a later microtask; it reads the token slot) and the   *)
(* settlement (response interceptor plus the rest of the async function).  *)
(* The variable "last" is what the most recent step did, as its caller     *)
(* observes it; every action overwrites it.                                *)
(***************************************************************************)
EXTENDS Integers, Sequences, FiniteSets, TLC

(***************************************************************************)
(* Bounds of the model.                                                    *)
(***************************************************************************)
\* number of requests that may be in flight at once
MaxInflight == 2

(***************************************************************************)
(* JavaScript values.                                                      *)
(*                                                                         *)
(* Objects are records.  TLC keeps the fields of a record sorted by the    *)
(* order in which their names first occur as identifiers in this module,   *)
(* and sorting one record from two workers at once corrupts it; every      *)
(* record constructor below therefore lists its fields in that order.      *)
(***************************************************************************)
NULL == "<null>"
UNDEF == "<undefined>"

\* ToBoolean of a string-or-nullish value: `if (x)`, `x || y`
Truthy(v) == v \notin {NULL, UNDEF, ""}

\* a || b
OrElse(a, b) == IF Truthy(a) THEN a ELSE b

\* x.includes(y) of an array
Includes(arr, y) == \E i \in 1..Len(arr) : arr[i] = y

(***************************************************************************)
(* Errors.  A plain `new Error(message)`, the TypeError the runtime raises *)
(* (property access on null, `new URL` of a malformed string), and         *)
(* ZuthSDKError (src/src/types/index.ts).                                  *)
(***************************************************************************)
NoError == [name |-> "none", message |-> ""]
PlainError(msg) == [name |-> "Error", message |-> msg]
TypeError(msg) == [name |-> "TypeError", message |-> msg]
ZuthSDKError(message, statusCode, error, details) ==
    [name |-> "ZuthSDKError", message |-> message, statusCode |-> statusCode,
     error |-> error, details |-> details]

(***************************************************************************)
(* URLs.  `new URL(s)` of the WHATWG parser, tabulated on the strings the  *)
(* model uses: the scheme and the host are lower-cased, a default port is  *)
(* dropped from `host`, a string with no scheme does not parse (TypeError).*)
(***************************************************************************)
InvalidUrl == [ok |-> FALSE, protocol |-> "", host |-> "", hostname |-> "", pathname |-> ""]
Parsed(protocol, host, hostname, pathname) ==
    [ok |-> TRUE, protocol |-> protocol, host |-> host, hostname |-> hostname,
     pathname |-> pathname]

ParseUrl(s) ==
    CASE s = "https://app.test/cb"      -> Parsed("https:", "app.test", "app.test", "/cb")
      [] s = "HTTPS://APP.TEST/cb"      -> Parsed("https:", "app.test", "app.test", "/cb")
      [] s = "https://app.test:443/cb"  -> Parsed("https:", "app.test", "app.test", "/cb")
      [] s = "https://app.test:8443/cb" -> Parsed("https:", "app.test:8443", "app.test", "/cb")
      [] s = "https://evil.test/cb"     -> Parsed("https:", "evil.test", "evil.test", "/cb")
      [] s = "http://app.test/cb"       -> Parsed("http:", "app.test", "app.test", "/cb")
      [] s = "https://api.test"         -> Parsed("https:", "api.test", "api.test", "/")
      [] s = "http://api.test"          -> Parsed("http:", "api.test", "api.test", "/")
      [] s = "http://localhost:3000"    -> Parsed("http:", "localhost:3000", "localhost", "/")
      [] s = "https://api.test/"        -> Parsed("https:", "api.test", "api.test", "/")
      [] s = "HTTPS://API.TEST"         -> Parsed("https:", "api.test", "api.test", "/")
      [] s = "https://localhost"        -> Parsed("https:", "localhost", "localhost", "/")
      [] s = "http://LOCALHOST:3000"    -> Parsed("http:", "localhost:3000", "localhost", "/")
      [] s = "http://127.0.0.1:8080"    -> Parsed("http:", "127.0.0.1:8080", "127.0.0.1", "/")
      [] s = "http://127.0.0.2"         -> Parsed("http:", "127.0.0.2", "127.0.0.2", "/")
      [] s = "http://[::1]:3000"        -> Parsed("http:", "[::1]:3000", "[::1]", "/")
      [] s = "http://localhost.evil.test" ->
             Parsed("http:", "localhost.evil.test", "localhost.evil.test", "/")
      [] s = "ftp://localhost/pub"      -> Parsed("ftp:", "localhost", "localhost", "/pub")
      [] s = "https://app.test.evil.test/cb" ->
             Parsed("https:", "app.test.evil.test", "app.test.evil.test", "/cb")
      [] s = "myapp://callback/done"    -> Parsed("myapp:", "callback", "callback", "/done")
      [] OTHER                          -> InvalidUrl

\* `${uriObj.protocol}//${uriObj.host}`: the scheme and the host with its
\* port, whatever the scheme
UrlOrigin(u) == u.protocol \o "//" \o u.host

(***************************************************************************)
(* src/src/security.ts                                                     *)
(***************************************************************************)
\* the two errors of validateSecureUrl
InsecureUrlError ==
    PlainError("Insecure URL detected. HTTPS is required in production. "
               \o "Use https:// for your baseUrl in production environments.")
InvalidUrlError(url) == PlainError("Invalid URL: " \o url)

\* validateSecureUrl that lets localhost through whatever allowLocalhost says
validateSecureUrl_IgnoresFlag(url, allowLocalhost) ==
    LET urlObj == ParseUrl(url)
    IN  IF ~urlObj.ok THEN InvalidUrlError(url)
        ELSE IF urlObj.hostname = "localhost" \/ urlObj.hostname = "127.0.0.1"
               THEN NoError
        ELSE IF urlObj.protocol # "https:" THEN InsecureUrlError
        ELSE NoError

\* validateSecureUrl: NoError when it returns, else the Error it throws
validateSecureUrl(url, allowLocalhost) ==
    LET urlObj == ParseUrl(url)
    IN  IF ~urlObj.ok THEN InvalidUrlError(url)
        ELSE IF allowLocalhost
                  /\ (urlObj.hostname = "localhost" \/ urlObj.hostname = "127.0.0.1")
               THEN NoError
        ELSE IF urlObj.protocol # "https:" THEN InsecureUrlError
        ELSE NoError

\* allowedOrigins.join(', ')
RECURSIVE JoinOrigins(_)
JoinOrigins(arr) ==
    IF Len(arr) = 0 THEN ""
    ELSE IF Len(arr) = 1 THEN arr[1]
    ELSE arr[1] \o ", " \o JoinOrigins(Tail(arr))

\* the two errors of validateRedirectUri
NotAllowedError(redirectUri, allowedOrigins) ==
    PlainError("Redirect URI " \o redirectUri
               \o " is not in the allowed origins list. "
               \o "Allowed origins: " \o JoinOrigins(allowedOrigins))
InvalidRedirectError(redirectUri) == PlainError("Invalid redirect URI: " \o redirectUri)

\* validateRedirectUri comparing scheme and host name only, without the port
validateRedirectUri_IgnoresPort(redirectUri, allowedOrigins) ==
    LET uriObj == ParseUrl(redirectUri)
        origin == uriObj.protocol \o "//" \o uriObj.hostname
    IN  IF ~uriObj.ok
          THEN InvalidRedirectError(redirectUri)
          ELSE IF ~Includes(allowedOrigins, origin)
                 THEN NotAllowedError(redirectUri, allowedOrigins)
                 ELSE NoError

\* validateRedirectUri accepting an origin that starts with an allowed one
StartsWith(str, prefix) == Len(prefix) <= Len(str) /\ SubSeq(str, 1, Len(prefix)) = prefix
validateRedirectUri_Prefix(redirectUri, allowedOrigins) ==
    LET uriObj == ParseUrl(redirectUri)
        origin == UrlOrigin(uriObj)
    IN  IF ~uriObj.ok
          THEN InvalidRedirectError(redirectUri)
          ELSE IF ~(\E i \in 1..Len(allowedOrigins) : StartsWith(origin, allowedOrigins[i]))
                 THEN NotAllowedError(redirectUri, allowedOrigins)
                 ELSE NoError

\* validateRedirectUri: NoError when it returns, else the Error it throws
validateRedirectUri(redirectUri, allowedOrigins) ==
    LET uriObj == ParseUrl(redirectUri)
        origin == UrlOrigin(uriObj)
    IN  IF ~uriObj.ok
          THEN InvalidRedirectError(redirectUri)
          ELSE IF ~Includes(allowedOrigins, origin)
                 THEN NotAllowedError(redirectUri, allowedOrigins)
                 ELSE NoError

\* validateOAuthState comparing after trimming and case-folding
Normalized(state) == IF state \in {"s", "S "} THEN "S" ELSE state
validateOAuthState_Normalizing(receivedState, originalState) ==
    IF ~Truthy(receivedState)
      THEN PlainError("OAuth state parameter is missing. This may indicate a CSRF attack.")
      ELSE IF Normalized(receivedState) # Normalized(originalState)
             THEN PlainError("OAuth state parameter mismatch. This may indicate a CSRF attack.")
             ELSE NoError

\* validateOAuthState: NoError when it returns, else the Error it throws
validateOAuthState(receivedState, originalState) ==
    IF ~Truthy(receivedState)
      THEN PlainError("OAuth state parameter is missing. This may indicate a CSRF attack.")
      ELSE IF receivedState # originalState
             THEN PlainError("OAuth state parameter mismatch. This may indicate a CSRF attack.")
             ELSE NoError

\* byte.toString(16).padStart(2, '0')
HexDigit(n) ==
    CASE n = 0 -> "0" [] n = 1 -> "1" [] n = 2 -> "2" [] n = 3 -> "3"
      [] n = 4 -> "4" [] n = 5 -> "5" [] n = 6 -> "6" [] n = 7 -> "7"
      [] n = 8 -> "8" [] n = 9 -> "9" [] n = 10 -> "a" [] n = 11 -> "b"
      [] n = 12 -> "c" [] n = 13 -> "d" [] n = 14 -> "e" [] n = 15 -> "f"

ByteToString16(byte) ==
    IF byte < 16 THEN HexDigit(byte) ELSE HexDigit(byte \div 16) \o HexDigit(byte % 16)

\* no padding at all
PadStart2_None(s) == s

PadStart2(s) == IF Len(s) < 2 THEN "0" \o s ELSE s

\* Array.from(array, byte => ...).join(''); the array is halved to keep the
\* evaluation shallow
RECURSIVE JoinHex(_)
JoinHex(array) ==
    IF Len(array) = 0 THEN ""
    ELSE IF Len(array) = 1 THEN PadStart2(ByteToString16(array[1]))
    ELSE LET half == Len(array) \div 2
         IN  JoinHex(SubSeq(array, 1, half)) \o JoinHex(SubSeq(array, half + 1, Len(array)))

\* new Uint8Array(32)
StateBytes == 32

\* generateOAuthState, given the bytes the CSPRNG filled the array with
generateOAuthState(array) == JoinHex(array)

\* the fillings of the array the model draws from
RandomArrays == {[i \in 1..StateBytes |-> b] : b \in {0, 171}}

\* isValidEmail: /^[^\s@]+@[^\s@]+\.[^\s@]+$/ on the characters of the email
CharAt(s, k) == SubSeq(s, k, k)
IsWordChar(c) == c \notin {" ", "@"}
AllWord(s, from, to) == \A k \in from..to : IsWordChar(CharAt(s, k))
isValidEmail(email) ==
    \E a \in 2..Len(email) : \E d \in (a + 2)..(Len(email) - 1) :
        /\ CharAt(email, a) = "@"
        /\ CharAt(email, d) = "."
        /\ AllWord(email, 1, a - 1)
        /\ AllWord(email, a + 1, d - 1)
        /\ AllWord(email, d + 1, Len(email))

\* sanitizeInput(email.toLowerCase().trim()), tabulated on the model's emails:
\* lower-cased, tags and the characters < > ' " removed
SanitizedEmail(email) ==
    CASE email = "User@Example.com"       -> "user@example.com"
      [] email = "<b>u</b>@example.com"   -> "u@example.com"
      [] OTHER                            -> email

\* isValidPassword(password, minLength = 8)
MinPasswordLength == 8
isValidPassword(password) == Len(password) >= MinPasswordLength

(***************************************************************************)
(* State.                                                                  *)
(***************************************************************************)
VARIABLES
    constructed,   \* a Zuth instance exists (its constructor returned)
    config,        \* ZuthClient.config: the normalized configuration
    accessToken,   \* ZuthClient.accessToken, the token slot
    requests,      \* the requests handed to axios that have not settled yet
    hasWindow,     \* typeof window !== 'undefined'
    href,          \* window.location.href
    last           \* what the most recent step did, as its caller sees it

vars == <<constructed, config, accessToken, requests, hasWindow, href, last>>

NoArgs == [none |-> TRUE]
NoValue == [kind |-> "undefined"]
NoData == [none |-> TRUE]

NoRequest ==
    [url |-> "", op |-> "none", phase |-> "free", method |-> "", data |-> NoData,
     authorization |-> UNDEF]

\* step: "call" (the operation was invoked), "intercept" (the request
\* interceptor ran), "settle" (the promise of the operation settled), "idle"
\* (the caller has taken the result of the previous step).
\* outcome: "returned" | "threw" for a synchronous operation, "pending" |
\* "resolved" | "rejected" for an asynchronous one.
Event(op, step, outcome, error, value, args) ==
    [error |-> error, op |-> op, step |-> step, outcome |-> outcome,
     value |-> value, args |-> args, warned |-> FALSE, slot |-> 0]

\* nothing is being delivered: the caller has taken the previous result
Idle == Event("none", "idle", "none", NoError, NoValue, NoArgs)

\* the instance exists and the event loop is free to run the next step
Ready == constructed /\ last = Idle

Slots == 1..MaxInflight
FreeSlots == {i \in Slots : requests[i].phase = "free"}
FirstFree == CHOOSE i \in FreeSlots : \A j \in FreeSlots : i <= j

\* axiosInstance.<method>(url, data): the request is handed to axios; its
\* interceptor chain runs later
Enqueued(op, method, url, data) ==
    [requests EXCEPT ![FirstFree] =
        [url |-> url, op |-> op, phase |-> "queued", method |-> method,
         data |-> data, authorization |-> UNDEF]]

Init ==
    /\ constructed = FALSE
    /\ config = [baseUrl |-> UNDEF]
    /\ accessToken = NULL
    /\ requests = [i \in Slots |-> NoRequest]
    /\ hasWindow \in BOOLEAN
    /\ href = "about:blank"
    /\ last = Idle

(***************************************************************************)
(* Facade: src/src/index.ts                                                *)
(***************************************************************************)
\* config.baseUrl.replace(/\/$/, '')
RECURSIVE StripTrailingSlash_All(_)
StripTrailingSlash_All(s) ==
    IF Len(s) > 0 /\ SubSeq(s, Len(s), Len(s)) = "/"
      THEN StripTrailingSlash_All(SubSeq(s, 1, Len(s) - 1))
      ELSE s

StripTrailingSlash(s) ==
    IF Len(s) > 0 /\ SubSeq(s, Len(s), Len(s)) = "/"
      THEN SubSeq(s, 1, Len(s) - 1)
      ELSE s

BaseUrls == {UNDEF, "", "https://api.test", "https://api.test/"}

\* and one that ends in two slashes, one that is not HTTPS, a loopback one
AllBaseUrls == BaseUrls \cup {"https://api.test//", "http://api.test", "http://localhost:3000"}

\* new Zuth(config), for the given configurations
ConstructFor(baseUrls) ==
    /\ ~constructed
    /\ last = Idle
    /\ \E baseUrl \in baseUrls :
         IF ~Truthy(baseUrl)
           THEN /\ last' = Event("constructor", "call", "threw",
                                 PlainError("baseUrl is required in Zuth configuration"),
                                 NoValue, [baseUrl |-> baseUrl])
                /\ UNCHANGED <<constructed, config, accessToken, requests, hasWindow, href>>
           ELSE /\ constructed' = TRUE
                /\ config' = [baseUrl |-> StripTrailingSlash(baseUrl)]
                /\ accessToken' = NULL
                /\ last' = Event("constructor", "call", "returned", NoError, NoValue,
                                 [baseUrl |-> baseUrl])
                /\ UNCHANGED <<requests, hasWindow, href>>

Construct == ConstructFor(BaseUrls)

\* the strings a caller passes as a token
Tokens == {"t1", "t2"}
TokenStrings == Tokens \cup {""}

\* Zuth.isAuthenticated()
isAuthenticated == accessToken # NULL

\* Zuth.setAccessToken(token: string)
SetAccessToken ==
    /\ Ready
    /\ \E token \in TokenStrings :
         /\ accessToken' = token
         /\ last' = Event("setAccessToken", "call", "returned", NoError, NoValue,
                          [token |-> token])
    /\ UNCHANGED <<constructed, config, requests, hasWindow, href>>

\* clearAuth that also drops the requests that are in flight
ClearAuth_Cancels ==
    /\ Ready
    /\ accessToken' = NULL
    /\ requests' = [i \in Slots |-> NoRequest]
    /\ last' = Event("clearAuth", "call", "returned", NoError, NoValue, NoArgs)
    /\ UNCHANGED <<constructed, config, hasWindow, href>>

\* Zuth.clearAuth()
ClearAuth ==
    /\ Ready
    /\ accessToken' = NULL
    /\ last' = Event("clearAuth", "call", "returned", NoError, NoValue, NoArgs)
    /\ UNCHANGED <<constructed, config, requests, hasWindow, href>>

(***************************************************************************)
(* Transport: src/src/client.ts                                            *)
(***************************************************************************)
\* ZuthClient.setAccessToken(token: string | null)
ClientSetAccessToken ==
    /\ Ready
    /\ \E token \in TokenStrings \cup {NULL} :
         /\ accessToken' = token
         /\ last' = Event("client.setAccessToken", "call", "returned", NoError, NoValue,
                          [token |-> token])
    /\ UNCHANGED <<constructed, config, requests, hasWindow, href>>

\* ZuthClient.clearAccessToken()
ClientClearAccessToken ==
    /\ Ready
    /\ accessToken' = NULL
    /\ last' = Event("client.clearAccessToken", "call", "returned", NoError, NoValue, NoArgs)
    /\ UNCHANGED <<constructed, config, requests, hasWindow, href>>

\* a header for every value of the slot other than null
Authorization_NonNull(token) == IF token # NULL THEN "Bearer " \o token ELSE UNDEF

\* the request interceptor: it reads the slot when axios runs it
Authorization(token) == IF Truthy(token) THEN "Bearer " \o token ELSE UNDEF

RequestInterceptor ==
    \E i \in Slots :
        /\ Ready
        /\ requests[i].phase = "queued"
        /\ requests' = [requests EXCEPT ![i].phase = "sent",
                                        ![i].authorization = Authorization(accessToken)]
        /\ last' = [Event(requests[i].op, "intercept", "pending", NoError, NoValue, NoArgs)
                       EXCEPT !.slot = i]
        /\ UNCHANGED <<constructed, config, accessToken, hasWindow, href>>

(***************************************************************************)
(* What axios settles a request with.  A fulfilled response carries the    *)
(* decoded body; a rejection is an AxiosError with `response` (the server  *)
(* answered with an error status), with `request` only (nothing came       *)
(* back), or with neither (the request could not be set up or sent).       *)
(***************************************************************************)
\* `undefined` where a number is expected
UndefNum == 0 - 1

\* decoded bodies of a 2xx response: an object, or the JSON value null
Body(access_token) ==
    [access_token |-> access_token, type |-> "object", sessions |-> "Session[]"]
NullBody == [access_token |-> UNDEF, type |-> "null", sessions |-> UNDEF]
\* a property that is not there, where a body could be
UndefinedBody == [access_token |-> UNDEF, type |-> "undefined", sessions |-> UNDEF]
AccessTokenValues == Tokens \cup {"", UNDEF, NULL}
SuccessBodies == {Body(t) : t \in AccessTokenValues} \cup {NullBody}

\* error.response.data: the structured payload, an object without the fields,
\* a body that is not JSON (a string: every property reads undefined), null
ErrorBody(type, message, statusCode, error, details) ==
    [message |-> message, statusCode |-> statusCode, error |-> error, details |-> details,
     type |-> type]
ErrorBodies ==
    { ErrorBody("object", "Invalid credentials", 401, "Unauthorized", "details"),
      ErrorBody("object", UNDEF, UndefNum, UNDEF, UNDEF),
      ErrorBody("object", "", 0, "", UNDEF),
      ErrorBody("string", UNDEF, UndefNum, UNDEF, UNDEF),
      ErrorBody("null", UNDEF, UndefNum, UNDEF, UNDEF) }

HttpErrorStatuses == {401, 500}

Outcome(kind, status, data, message) ==
    [message |-> message, kind |-> kind, data |-> data, status |-> status]

Outcomes ==
    {Outcome("fulfilled", 200, b, "") : b \in SuccessBodies}
    \cup {Outcome("response", st, b, "Request failed") :
            st \in HttpErrorStatuses, b \in ErrorBodies}
    \cup {Outcome("request", 0, NoData, "Network Error")}
    \cup {Outcome("setup", 0, NoData, m) : m \in {"", "Invalid URL"}}

\* a || b on numbers
NumOrElse(a, b) == IF a \in {UndefNum, 0} THEN b ELSE a

\* an interceptor that takes the status of a failure without a response
\* from the error object, where axios leaves it undefined
ResponseInterceptorRejected_StatusFromError(error) ==
    IF error.kind = "response"
      THEN LET zuthError == error.data
           IN  IF zuthError.type = "null"
                 THEN TypeError("Cannot read properties of null (reading 'message')")
                 ELSE ZuthSDKError(OrElse(zuthError.message, "An error occurred"),
                                   NumOrElse(zuthError.statusCode, error.status),
                                   OrElse(zuthError.error, "UnknownError"),
                                   zuthError.details)
      ELSE IF error.kind = "request"
             THEN ZuthSDKError("Network error: Unable to reach the server", UndefNum,
                               "NetworkError", UNDEF)
             ELSE ZuthSDKError(OrElse(error.message, "An unexpected error occurred"),
                               UndefNum, "UnknownError", UNDEF)

\* the response interceptor's rejection handler: the error it throws
ResponseInterceptorRejected(error) ==
    IF error.kind = "response"
      THEN LET zuthError == error.data
           IN  IF zuthError.type = "null"
                 THEN TypeError("Cannot read properties of null (reading 'message')")
                 ELSE ZuthSDKError(OrElse(zuthError.message, "An error occurred"),
                                   NumOrElse(zuthError.statusCode, error.status),
                                   OrElse(zuthError.error, "UnknownError"),
                                   zuthError.details)
      ELSE IF error.kind = "request"
             THEN ZuthSDKError("Network error: Unable to reach the server", 0,
                               "NetworkError", UNDEF)
             ELSE ZuthSDKError(OrElse(error.message, "An unexpected error occurred"), 0,
                               "UnknownError", UNDEF)

\* `await this.client.get/post/put/delete(...)`: response.data, or the error
\* the response interceptor throws
ClientResult(outcome) ==
    IF outcome.kind = "fulfilled"
      THEN [error |-> NoError, ok |-> TRUE, data |-> outcome.data]
      ELSE [error |-> ResponseInterceptorRejected(outcome), ok |-> FALSE, data |-> NoValue]

\* the settled request leaves the in-flight set
Released(i) == [requests EXCEPT ![i] = NoRequest]

\* the result of an awaited request; `args` keeps what axios settled it with
Settled(settled, op, outcome, error, value, i) ==
    [Event(op, "settle", outcome, error, value, settled) EXCEPT !.slot = i]

Pending(op, args) == Event(op, "call", "pending", NoError, NoValue, args)
Rejected(op, error, args) == Event(op, "call", "rejected", error, NoValue, args)

\* an operation that only forwards to the Transport: the request is queued
Forward(op, method, url, data, args) ==
    /\ Ready
    /\ FreeSlots # {}
    /\ requests' = Enqueued(op, method, url, data)
    /\ last' = Pending(op, args)
    /\ UNCHANGED <<constructed, config, accessToken, hasWindow, href>>

\* ZuthClient.get / post / put / delete, called directly
ClientGet == Forward("client.get", "GET", "/resource", NoData, NoArgs)
ClientPost == Forward("client.post", "POST", "/resource", NoData, NoArgs)
ClientPut == Forward("client.put", "PUT", "/resource", NoData, NoArgs)
ClientDelete == Forward("client.delete", "DELETE", "/resource", NoData, NoArgs)

(***************************************************************************)
(* Endpoint methods: src/src/auth.ts                                       *)
(***************************************************************************)
Emails == {"user@example.com", "User@Example.com", "a@b", "user @example.com"}
Passwords == {"short", "long-enough"}

\* ZuthAuth.register(data)
Register ==
    \E email \in Emails, password \in Passwords :
        LET args == [email |-> email, password |-> password] IN
        IF ~isValidEmail(email)
          THEN /\ Ready
               /\ last' = Rejected("register", PlainError("Invalid email format"), args)
               /\ UNCHANGED <<constructed, config, accessToken, requests, hasWindow, href>>
          ELSE IF ~isValidPassword(password)
                 THEN /\ Ready
                      /\ last' = Rejected("register",
                             PlainError("Password must be at least 8 characters long"), args)
                      /\ UNCHANGED <<constructed, config, accessToken, requests,
                                     hasWindow, href>>
                 ELSE Forward("register", "POST", "/auth/register",
                              [email |-> SanitizedEmail(email), password |-> password],
                              args)

\* ZuthAuth.login(data): up to the request
Login ==
    \E email \in Emails, password \in Passwords :
        LET args == [email |-> email, password |-> password] IN
        IF ~isValidEmail(email)
          THEN /\ Ready
               /\ last' = Rejected("login", PlainError("Invalid email format"), args)
               /\ UNCHANGED <<constructed, config, accessToken, requests, hasWindow, href>>
          ELSE Forward("login", "POST", "/auth/login",
                       [email |-> SanitizedEmail(email), password |-> password], args)

\* login that returns the response without installing its token
LoginSettled_NoInstall ==
    \E i \in Slots, outcome \in Outcomes :
        LET response == ClientResult(outcome) IN
        /\ requests[i].op = "login"
        /\ requests[i].phase = "sent"
        /\ Ready
        /\ requests' = Released(i)
        /\ last' = IF ~response.ok
                     THEN Settled(outcome, "login", "rejected", response.error, NoValue, i)
                     ELSE Settled(outcome, "login", "resolved", NoError, response.data, i)
        /\ UNCHANGED <<constructed, config, accessToken, hasWindow, href>>

\* login that installs its token only when no token is installed yet
LoginSettled_FirstWins ==
    \E i \in Slots, outcome \in Outcomes :
        LET response == ClientResult(outcome) IN
        /\ requests[i].op = "login"
        /\ requests[i].phase = "sent"
        /\ Ready
        /\ requests' = Released(i)
        /\ IF ~response.ok
             THEN /\ last' = Settled(outcome, "login", "rejected", response.error, NoValue, i)
                  /\ UNCHANGED accessToken
             ELSE IF response.data.type = "null"
                    THEN /\ last' = Settled(outcome, "login", "rejected",
                                 TypeError("Cannot read properties of null (reading 'access_token')"),
                                 NoValue, i)
                         /\ UNCHANGED accessToken
                    ELSE /\ accessToken' = IF accessToken = NULL
                                             THEN response.data.access_token
                                             ELSE accessToken
                         /\ last' = Settled(outcome, "login", "resolved", NoError, response.data, i)
        /\ UNCHANGED <<constructed, config, hasWindow, href>>

\* ZuthAuth.login: after `await this.client.post`
LoginSettled ==
    \E i \in Slots, outcome \in Outcomes :
        LET response == ClientResult(outcome) IN
        /\ requests[i].op = "login"
        /\ requests[i].phase = "sent"
        /\ Ready
        /\ requests' = Released(i)
        /\ IF ~response.ok
             THEN /\ last' = Settled(outcome, "login", "rejected", response.error, NoValue, i)
                  /\ UNCHANGED accessToken
             ELSE IF response.data.type = "null"
                    THEN /\ last' = Settled(outcome, "login", "rejected",
                                 TypeError("Cannot read properties of null (reading 'access_token')"),
                                 NoValue, i)
                         /\ UNCHANGED accessToken
                    ELSE /\ accessToken' = response.data.access_token
                         /\ last' = Settled(outcome, "login", "resolved", NoError, response.data, i)
        /\ UNCHANGED <<constructed, config, hasWindow, href>>

\* ZuthAuth.getCurrentUser()
GetCurrentUser == Forward("getCurrentUser", "GET", "/auth/me", NoData, NoArgs)

\* ZuthAuth.checkSession(): up to the request of getCurrentUser
CheckSession == Forward("checkSession", "GET", "/auth/me", NoData, NoArgs)

\* error.statusCode of whatever was thrown
StatusCodeOf(error) == IF error.name = "ZuthSDKError" THEN error.statusCode ELSE UndefNum

\* checkSession that also clears the token when the session is not valid
CheckSessionSettled_ClearsOn401 ==
    \E i \in Slots, outcome \in Outcomes :
        LET user == ClientResult(outcome) IN
        /\ requests[i].op = "checkSession"
        /\ requests[i].phase = "sent"
        /\ Ready
        /\ requests' = Released(i)
        /\ last' = IF user.ok
                     THEN Settled(outcome, "checkSession", "resolved", NoError,
                                  [user |-> user.data, valid |-> TRUE], i)
                     ELSE IF StatusCodeOf(user.error) = 401
                            THEN Settled(outcome, "checkSession", "resolved", NoError,
                                         [user |-> UndefinedBody, valid |-> FALSE], i)
                            ELSE Settled(outcome, "checkSession", "rejected", user.error, NoValue, i)
        /\ accessToken' = IF ~user.ok /\ StatusCodeOf(user.error) = 401
                            THEN NULL ELSE accessToken
        /\ UNCHANGED <<constructed, config, hasWindow, href>>

\* ZuthAuth.checkSession(): after `await this.getCurrentUser()`
CheckSessionSettled ==
    \E i \in Slots, outcome \in Outcomes :
        LET user == ClientResult(outcome) IN
        /\ requests[i].op = "checkSession"
        /\ requests[i].phase = "sent"
        /\ Ready
        /\ requests' = Released(i)
        /\ last' = IF user.ok
                     THEN Settled(outcome, "checkSession", "resolved", NoError,
                                  [user |-> user.data, valid |-> TRUE], i)
                     ELSE IF StatusCodeOf(user.error) = 401
                            THEN Settled(outcome, "checkSession", "resolved", NoError,
                                         [user |-> UndefinedBody, valid |-> FALSE], i)
                            ELSE Settled(outcome, "checkSession", "rejected", user.error, NoValue, i)
        /\ UNCHANGED <<constructed, config, accessToken, hasWindow, href>>

\* ZuthAuth.logout(): up to the request
\* a logout that clears the token before its request is handed over
Logout_ClearsFirst ==
    /\ Ready
    /\ FreeSlots # {}
    /\ requests' = Enqueued("logout", "POST", "/auth/logout", NoData)
    /\ accessToken' = NULL
    /\ last' = Pending("logout", NoArgs)
    /\ UNCHANGED <<constructed, config, hasWindow, href>>

Logout == Forward("logout", "POST", "/auth/logout", NoData, NoArgs)

\* a logout that clears only the token its own request was sent with
LogoutSettled_KeepsNewer ==
    \E i \in Slots, outcome \in Outcomes :
        LET response == ClientResult(outcome) IN
        /\ requests[i].op = "logout"
        /\ requests[i].phase = "sent"
        /\ Ready
        /\ requests' = Released(i)
        /\ accessToken' = IF Authorization(accessToken) = requests[i].authorization
                             THEN NULL
                             ELSE accessToken
        /\ last' = IF response.ok
                     THEN Settled(outcome, "logout", "resolved", NoError, NoValue, i)
                     ELSE Settled(outcome, "logout", "rejected", response.error, NoValue, i)
        /\ UNCHANGED <<constructed, config, hasWindow, href>>

\* ZuthAuth.logout(): the finally block, then the result of the request
LogoutSettled ==
    \E i \in Slots, outcome \in Outcomes :
        LET response == ClientResult(outcome) IN
        /\ requests[i].op = "logout"
        /\ requests[i].phase = "sent"
        /\ Ready
        /\ requests' = Released(i)
        /\ accessToken' = NULL
        /\ last' = IF response.ok
                     THEN Settled(outcome, "logout", "resolved", NoError, NoValue, i)
                     ELSE Settled(outcome, "logout", "rejected", response.error, NoValue, i)
        /\ UNCHANGED <<constructed, config, hasWindow, href>>

\* ZuthAuth.getActiveSessions()
GetActiveSessions == Forward("getActiveSessions", "GET", "/auth/sessions", NoData, NoArgs)

SessionIds == {"s1"}

\* ZuthAuth.revokeSession(sessionId)
RevokeSession ==
    \E sessionId \in SessionIds :
        Forward("revokeSession", "POST", "/auth/sessions/" \o sessionId \o "/revoke",
                NoData, [sessionId |-> sessionId])

\* ZuthAuth.setupMfa()
SetupMfa == Forward("setupMfa", "POST", "/auth/mfa/setup", NoData, NoArgs)

MfaCodes == {"123456"}

\* ZuthAuth.verifyMfa(data)
VerifyMfa ==
    \E code \in MfaCodes :
        Forward("verifyMfa", "POST", "/auth/mfa/verify", [code |-> code], [code |-> code])

\* ZuthAuth.setupEmailMfa()
SetupEmailMfa == Forward("setupEmailMfa", "POST", "/auth/mfa/setup/email", NoData, NoArgs)

\* ZuthAuth.sendEmailMfaCode()
SendEmailMfaCode ==
    Forward("sendEmailMfaCode", "POST", "/auth/mfa/email/send-code", NoData, NoArgs)

\* ZuthAuth.verifyEmailMfaCode(code)
VerifyEmailMfaCode ==
    \E code \in MfaCodes :
        Forward("verifyEmailMfaCode", "POST", "/auth/mfa/email/verify", [code |-> code],
                [code |-> code])

\* operations that return `response` unchanged, and those that return nothing
ReturnsResponse == {"client.get", "client.post", "client.put", "client.delete",
                    "register", "getCurrentUser", "setupMfa", "getOidcConfiguration"}
ReturnsVoid == {"revokeSession", "verifyMfa", "setupEmailMfa", "sendEmailMfaCode",
                "verifyEmailMfaCode"}

\* a forwarding operation that sends its request again when nothing came back
ForwardSettled_Retry ==
    \E i \in Slots, outcome \in Outcomes :
        LET response == ClientResult(outcome)
            op == requests[i].op IN
        /\ op \in ReturnsResponse \cup ReturnsVoid
        /\ requests[i].phase = "sent"
        /\ Ready
        /\ requests' = IF outcome.kind = "request"
                          THEN [requests EXCEPT ![i].phase = "queued"]
                          ELSE Released(i)
        /\ last' = IF outcome.kind = "request"
                     THEN [Event(op, "intercept", "pending", NoError, NoValue, NoArgs)
                              EXCEPT !.slot = i]
                     ELSE IF ~response.ok
                     THEN Settled(outcome, op, "rejected", response.error, NoValue, i)
                     ELSE IF op \in ReturnsVoid
                            THEN Settled(outcome, op, "resolved", NoError, NoValue, i)
                            ELSE Settled(outcome, op, "resolved", NoError, response.data, i)
        /\ UNCHANGED <<constructed, config, accessToken, hasWindow, href>>

\* the rest of a forwarding operation, after `await this.client.<method>`
ForwardSettled ==
    \E i \in Slots, outcome \in Outcomes :
        LET response == ClientResult(outcome)
            op == requests[i].op IN
        /\ op \in ReturnsResponse \cup ReturnsVoid
        /\ requests[i].phase = "sent"
        /\ Ready
        /\ requests' = Released(i)
        /\ last' = IF ~response.ok
                     THEN Settled(outcome, op, "rejected", response.error, NoValue, i)
                     ELSE IF op \in ReturnsVoid
                            THEN Settled(outcome, op, "resolved", NoError, NoValue, i)
                            ELSE Settled(outcome, op, "resolved", NoError, response.data, i)
        /\ UNCHANGED <<constructed, config, accessToken, hasWindow, href>>

\* ZuthAuth.getActiveSessions(): `return response.sessions`
GetActiveSessionsSettled ==
    \E i \in Slots, outcome \in Outcomes :
        LET response == ClientResult(outcome) IN
        /\ requests[i].op = "getActiveSessions"
        /\ requests[i].phase = "sent"
        /\ Ready
        /\ requests' = Released(i)
        /\ last' = IF ~response.ok
                     THEN Settled(outcome, "getActiveSessions", "rejected", response.error, NoValue, i)
                     ELSE IF response.data.type = "null"
                            THEN Settled(outcome, "getActiveSessions", "rejected",
                                   TypeError("Cannot read properties of null (reading 'sessions')"),
                                   NoValue, i)
                            ELSE Settled(outcome, "getActiveSessions", "resolved", NoError,
                                         [sessions |-> response.data.sessions], i)
        /\ UNCHANGED <<constructed, config, accessToken, hasWindow, href>>

(***************************************************************************)
(* OAuth coordinator: src/unnamed/part_000                                 *)
(***************************************************************************)
\* application/x-www-form-urlencoded serialisation of URLSearchParams
UnreservedChars ==
    {"a", "b", "c", "d", "e", "f", "g", "h", "i", "j", "k", "l", "m", "n", "o", "p",
     "q", "r", "s", "t", "u", "v", "w", "x", "y", "z",
     "A", "B", "C", "D", "E", "F", "G", "H", "I", "J", "K", "L", "M", "N", "O", "P",
     "Q", "R", "S", "T", "U", "V", "W", "X", "Y", "Z",
     "0", "1", "2", "3", "4", "5", "6", "7", "8", "9", "*", "-", ".", "_"}

PercentEncoded(c) ==
    CASE c = ":" -> "%3A"
      [] c = "/" -> "%2F"
      [] c = "?" -> "%3F"
      [] c = "=" -> "%3D"
      [] c = "&" -> "%26"
      [] c = "@" -> "%40"

FormEncodeChar(c) ==
    IF c \in UnreservedChars THEN c
    ELSE IF c = " " THEN "+"
    ELSE PercentEncoded(c)

\* the characters are encoded one by one; the string is halved to keep the
\* evaluation shallow
RECURSIVE FormEncode(_)
FormEncode(s) ==
    IF Len(s) = 0 THEN ""
    ELSE IF Len(s) = 1 THEN FormEncodeChar(s)
    ELSE LET half == Len(s) \div 2
         IN  FormEncode(SubSeq(s, 1, half)) \o FormEncode(SubSeq(s, half + 1, Len(s)))

RECURSIVE SearchParamsToString(_)
SearchParamsToString(pairs) ==
    IF pairs = <<>> THEN ""
    ELSE FormEncode(Head(pairs)[1]) \o "=" \o FormEncode(Head(pairs)[2])
         \o (IF Len(pairs) > 1 THEN "&" ELSE "")
         \o SearchParamsToString(Tail(pairs))

\* an allowedOrigins argument: omitted, or an array of origins
NoAllowList == [supplied |-> FALSE, origins |-> <<>>]
AllowList(origins) == [supplied |-> TRUE, origins |-> origins]

\* ZuthOAuth.getAuthorizationUrl(params, allowedOrigins), with the bytes the
\* CSPRNG would deliver: the error thrown, or the {url, state} returned
getAuthorizationUrl(params, allowedOrigins, array) ==
    LET check == IF allowedOrigins.supplied /\ Len(allowedOrigins.origins) > 0
                   THEN validateRedirectUri(params.redirectUri, allowedOrigins.origins)
                   ELSE NoError
        state == IF Truthy(params.state) THEN params.state ELSE generateOAuthState(array)
        queryParams == << <<"client_id", params.clientId>>,
                          <<"redirect_uri", params.redirectUri>>,
                          <<"response_type", OrElse(params.responseType, "code")>>,
                          <<"scope", OrElse(params.scope, "openid profile email")>>,
                          <<"state", state>> >>
    IN  IF check # NoError
          THEN [error |-> check, url |-> UNDEF, state |-> UNDEF]
          ELSE [error |-> NoError,
                url |-> config.baseUrl \o "/oauth/authorize?"
                          \o SearchParamsToString(queryParams),
                state |-> state]

ClientIds == {"c1"}
RedirectUris == {"https://app.test/cb", "HTTPS://APP.TEST/cb", "https://app.test:8443/cb",
                 "https://evil.test/cb", "not a url"}
AllowLists == {NoAllowList, AllowList(<<>>), AllowList(<<"https://app.test">>),
               AllowList(<<"https://other.test", "https://app.test">>)}

AuthorizeParamsOf(redirectUri, responseType, scope, state) ==
    [redirectUri |-> redirectUri, state |-> state, clientId |-> "c1",
     responseType |-> responseType, scope |-> scope]

AuthorizeCall(params, allowedOrigins) ==
    [allowedOrigins |-> allowedOrigins, params |-> params]

\* the calls of getAuthorizationUrl / redirectToAuthorization the model makes:
\* every redirect URI against every allow-list, and every shape of the
\* optional parameters
AuthorizeCalls ==
    {AuthorizeCall(AuthorizeParamsOf(r, UNDEF, UNDEF, st), a) :
        r \in RedirectUris, a \in AllowLists, st \in {UNDEF, "S"}}
    \cup {AuthorizeCall(AuthorizeParamsOf("https://app.test/cb", rt, sc, st), NoAllowList) :
        rt \in {UNDEF, "token"}, sc \in {UNDEF, "openid"}, st \in {UNDEF, "", "S", "a b&c"}}

\* a few of them, for the specification of all operations
FewAuthorizeCalls ==
    {AuthorizeCall(AuthorizeParamsOf(r, UNDEF, UNDEF, "S"), a) :
        r \in {"https://app.test/cb", "https://evil.test/cb", "not a url"},
        a \in {NoAllowList, AllowList(<<"https://app.test">>)}}

\* ZuthOAuth.getAuthorizationUrl(params, allowedOrigins), for the given calls
GetAuthorizationUrlFor(calls) ==
    /\ Ready
    /\ \E call \in calls, array \in RandomArrays :
         LET result == getAuthorizationUrl(call.params, call.allowedOrigins, array) IN
         last' = IF result.error # NoError
                   THEN Event("getAuthorizationUrl", "call", "threw", result.error,
                              NoValue, call)
                   ELSE Event("getAuthorizationUrl", "call", "returned", NoError,
                              [url |-> result.url, state |-> result.state], call)
    /\ UNCHANGED <<constructed, config, accessToken, requests, hasWindow, href>>

GetAuthorizationUrl == GetAuthorizationUrlFor(AuthorizeCalls)

\* ZuthOAuth.redirectToAuthorization(params, allowedOrigins), for the given calls
RedirectToAuthorizationFor(calls) ==
    /\ Ready
    /\ \E call \in calls, array \in RandomArrays :
         LET result == getAuthorizationUrl(call.params, call.allowedOrigins, array) IN
         IF ~hasWindow
           THEN /\ last' = Event("redirectToAuthorization", "call", "threw",
                      PlainError("redirectToAuthorization can only be used in browser environments"),
                      NoValue, call)
                /\ UNCHANGED href
           ELSE IF result.error # NoError
                  THEN /\ last' = Event("redirectToAuthorization", "call", "threw",
                                        result.error, NoValue, call)
                       /\ UNCHANGED href
                  ELSE /\ href' = result.url
                       /\ last' = Event("redirectToAuthorization", "call", "returned",
                                        NoError, [state |-> result.state], call)
    /\ UNCHANGED <<constructed, config, accessToken, requests, hasWindow>>

\* ZuthOAuth.getAuthorizationUrl(params) of oauth.ts: the URL, which names a
\* state only when the caller gave one
legacyGetAuthorizationUrl(params) ==
    LET queryParams == << <<"client_id", params.clientId>>,
                          <<"redirect_uri", params.redirectUri>>,
                          <<"response_type", OrElse(params.responseType, "code")>>,
                          <<"scope", OrElse(params.scope, "openid profile email")>> >>
                       \o (IF Truthy(params.state) THEN << <<"state", params.state>> >>
                           ELSE <<>>)
    IN  config.baseUrl \o "/oauth/authorize?" \o SearchParamsToString(queryParams)

\* the calls of the coordinator of oauth.ts, which takes no allow-list
LegacyAuthorizeCalls == {call \in AuthorizeCalls : call.allowedOrigins = NoAllowList}

\* a few of them, for the redirect
FewLegacyAuthorizeCalls ==
    {call \in LegacyAuthorizeCalls :
        call.params.responseType = UNDEF /\ call.params.scope = UNDEF}

LegacyGetAuthorizationUrl ==
    /\ Ready
    /\ \E call \in LegacyAuthorizeCalls :
         last' = Event("legacy.getAuthorizationUrl", "call", "returned", NoError,
                       legacyGetAuthorizationUrl(call.params), call)
    /\ UNCHANGED <<constructed, config, accessToken, requests, hasWindow, href>>

\* ZuthOAuth.redirectToAuthorization(params) of oauth.ts, which returns nothing
LegacyRedirectToAuthorization ==
    /\ Ready
    /\ \E call \in FewLegacyAuthorizeCalls :
         IF ~hasWindow
           THEN /\ last' = Event("legacy.redirectToAuthorization", "call", "threw",
                      PlainError("redirectToAuthorization can only be used in browser environments"),
                      NoValue, call)
                /\ UNCHANGED href
           ELSE /\ href' = legacyGetAuthorizationUrl(call.params)
                /\ last' = Event("legacy.redirectToAuthorization", "call", "returned",
                                 NoError, NoValue, call)
    /\ UNCHANGED <<constructed, config, accessToken, requests, hasWindow>>

Codes == {"abc"}
RefreshTokens == {"r1"}
GrantTypes == {UNDEF, "refresh_token"}

\* ZuthOAuth.exchangeCodeForToken(data): up to the request
ExchangeCodeForToken ==
    \E code \in Codes, clientId \in ClientIds, grantType \in GrantTypes :
        LET data == [redirectUri |-> "https://app.test/cb", code |-> code, clientId |-> clientId,
                     grantType |-> grantType, clientSecret |-> UNDEF] IN
        Forward("exchangeCodeForToken", "POST", "/oauth/token",
                [redirectUri |-> data.redirectUri, code |-> data.code,
                 clientId |-> data.clientId, grantType |-> data.grantType,
                 clientSecret |-> data.clientSecret,
                 grant_type |-> OrElse(data.grantType, "authorization_code")],
                data)

\* ZuthOAuth.refreshToken(refreshToken, clientId): up to the request
RefreshToken ==
    \E refreshToken \in RefreshTokens, clientId \in ClientIds :
        Forward("refreshToken", "POST", "/oauth/token",
                [grant_type |-> "refresh_token", refresh_token |-> refreshToken,
                 client_id |-> clientId],
                [clientId |-> clientId, refreshToken |-> refreshToken])

TokenOps == {"exchangeCodeForToken", "refreshToken", "handleCallback",
             "legacy.handleCallback"}

\* an exchange that installs the new token only into an empty slot
TokenSettled_KeepsCurrent ==
    \E i \in Slots, outcome \in Outcomes :
        LET response == ClientResult(outcome)
            op == requests[i].op IN
        /\ op \in TokenOps
        /\ requests[i].phase = "sent"
        /\ Ready
        /\ requests' = Released(i)
        /\ IF ~response.ok
             THEN /\ last' = Settled(outcome, op, "rejected", response.error, NoValue, i)
                  /\ UNCHANGED accessToken
             ELSE IF response.data.type = "null"
                    THEN /\ last' = Settled(outcome, op, "rejected",
                                 TypeError("Cannot read properties of null (reading 'access_token')"),
                                 NoValue, i)
                         /\ UNCHANGED accessToken
                    ELSE /\ accessToken' = IF Truthy(response.data.access_token)
                                                /\ ~Truthy(accessToken)
                                             THEN response.data.access_token
                                             ELSE accessToken
                         /\ last' = Settled(outcome, op, "resolved", NoError, response.data, i)
        /\ UNCHANGED <<constructed, config, hasWindow, href>>

\* exchangeCodeForToken / refreshToken after `await this.client.post`; a
\* handleCallback that reached the exchange returns what the exchange returns
TokenSettled ==
    \E i \in Slots, outcome \in Outcomes :
        LET response == ClientResult(outcome)
            op == requests[i].op IN
        /\ op \in TokenOps
        /\ requests[i].phase = "sent"
        /\ Ready
        /\ requests' = Released(i)
        /\ IF ~response.ok
             THEN /\ last' = Settled(outcome, op, "rejected", response.error, NoValue, i)
                  /\ UNCHANGED accessToken
             ELSE IF response.data.type = "null"
                    THEN /\ last' = Settled(outcome, op, "rejected",
                                 TypeError("Cannot read properties of null (reading 'access_token')"),
                                 NoValue, i)
                         /\ UNCHANGED accessToken
                    ELSE /\ accessToken' = IF Truthy(response.data.access_token)
                                             THEN response.data.access_token
                                             ELSE accessToken
                         /\ last' = Settled(outcome, op, "resolved", NoError, response.data, i)
        /\ UNCHANGED <<constructed, config, hasWindow, href>>

\* ZuthOAuth.getOidcConfiguration()
GetOidcConfiguration ==
    Forward("getOidcConfiguration", "GET", "/.well-known/openid-configuration", NoData,
            NoArgs)

(***************************************************************************)
(* Callback URLs, as `new URL(url)` presents them: origin, pathname and    *)
(* the decoded name/value pairs of the query in their order; a string that *)
(* is not an absolute URL does not parse.                                  *)
(***************************************************************************)
Pair(name, value) == IF value = NULL THEN <<>> ELSE << <<name, value>> >>

CallbackUrl(code, error, state) ==
    [ok |-> TRUE, pathname |-> "/cb", origin |-> "https://app.test",
     query |-> Pair("code", code) \o Pair("error", error) \o Pair("state", state)]

MalformedCallbackUrl == [ok |-> FALSE, pathname |-> "", origin |-> "", query |-> <<>>]

\* a callback that repeats the state parameter
RepeatedStateCallbackUrl ==
    [ok |-> TRUE, pathname |-> "/cb", origin |-> "https://app.test",
     query |-> << <<"code", "abc">>, <<"state", "WRONG">>, <<"state", "S">> >>]

\* urlObj.searchParams.get(name): the first value of that name, or null
RECURSIVE SearchParamsGet(_, _)
SearchParamsGet(query, name) ==
    IF query = <<>> THEN NULL
    ELSE IF Head(query)[1] = name THEN Head(query)[2]
    ELSE SearchParamsGet(Tail(query), name)

CallbackCodes == {NULL, "", "abc"}
CallbackErrors == {NULL, "", "access_denied"}
CallbackStates == {NULL, "", "S", "s", "S ", "WRONG"}

CallbackUrls ==
    {CallbackUrl(c, e, st) : c \in CallbackCodes, e \in CallbackErrors, st \in CallbackStates}
    \cup {MalformedCallbackUrl, RepeatedStateCallbackUrl}

OriginalStates == {UNDEF, "", "S"}

CallbackCall(url, redirectUri, originalState) ==
    [url |-> url, redirectUri |-> redirectUri, originalState |-> originalState, clientId |-> "c1",
     clientSecret |-> UNDEF]

\* the calls of handleCallback the model makes: every callback URL against
\* every originalState, and calls that name their redirectUri
CallbackCalls ==
    {CallbackCall(u, UNDEF, o) : u \in CallbackUrls, o \in OriginalStates}
    \cup {CallbackCall(CallbackUrl("abc", NULL, "S"), r, "S") :
            r \in {"https://app.test/other", ""}}

\* a few of them, for the specification of all operations
FewCallbackCalls ==
    {CallbackCall(CallbackUrl("abc", NULL, st), UNDEF, o) :
        st \in {NULL, "S", "WRONG"}, o \in {UNDEF, "S"}}
    \cup {CallbackCall(u, UNDEF, "S") :
        u \in {CallbackUrl(NULL, "access_denied", "S"), CallbackUrl(NULL, NULL, "S"),
               MalformedCallbackUrl}}

ConsoleWarned(event) == [event EXCEPT !.warned = TRUE]

\* the body with the address of the callback, whatever redirectUri was given
CallbackTokenRequest_IgnoresRedirectUri(call, code) ==
    [redirectUri |-> call.url.origin \o call.url.pathname,
     code |-> code, clientId |-> call.clientId, grantType |-> UNDEF,
     clientSecret |-> call.clientSecret, grant_type |-> "authorization_code"]

\* the body exchangeCodeForToken posts for handleCallback
CallbackTokenRequest(call, code) ==
    [redirectUri |-> OrElse(call.redirectUri, call.url.origin \o call.url.pathname),
     code |-> code, clientId |-> call.clientId, grantType |-> UNDEF,
     clientSecret |-> call.clientSecret, grant_type |-> "authorization_code"]

\* handleCallback without the check for a missing code
handleCallbackThrows_NoCodeCheck(call) ==
    LET urlObj == call.url
        error == SearchParamsGet(urlObj.query, "error")
        receivedState == SearchParamsGet(urlObj.query, "state")
    IN  IF ~urlObj.ok THEN TypeError("Invalid URL")
        ELSE IF Truthy(error) THEN PlainError("OAuth error: " \o error)
        ELSE IF Truthy(call.originalState)
               THEN validateOAuthState(receivedState, call.originalState)
        ELSE NoError

\* handleCallback that validates the state before it looks for the code
handleCallbackThrows_StateFirst(call) ==
    LET urlObj == call.url
        code == SearchParamsGet(urlObj.query, "code")
        error == SearchParamsGet(urlObj.query, "error")
        receivedState == SearchParamsGet(urlObj.query, "state")
        stateError == IF Truthy(call.originalState)
                        THEN validateOAuthState(receivedState, call.originalState)
                        ELSE NoError
    IN  IF ~urlObj.ok THEN TypeError("Invalid URL")
        ELSE IF Truthy(error) THEN PlainError("OAuth error: " \o error)
        ELSE IF stateError # NoError THEN stateError
        ELSE IF ~Truthy(code)
               THEN PlainError("Authorization code not found in callback URL")
        ELSE NoError

\* ZuthOAuth.handleCallback(url, clientId, clientSecret, redirectUri,
\* originalState): what it throws before the exchange, NoError if nothing
handleCallbackThrows(call) ==
    LET urlObj == call.url
        code == SearchParamsGet(urlObj.query, "code")
        error == SearchParamsGet(urlObj.query, "error")
        receivedState == SearchParamsGet(urlObj.query, "state")
    IN  IF ~urlObj.ok THEN TypeError("Invalid URL")
        ELSE IF Truthy(error) THEN PlainError("OAuth error: " \o error)
        ELSE IF ~Truthy(code)
               THEN PlainError("Authorization code not found in callback URL")
        ELSE IF Truthy(call.originalState)
               THEN validateOAuthState(receivedState, call.originalState)
        ELSE NoError

\* handleCallback that posts the token request before it validates the state
HandleCallbackFor_ExchangeFirst(calls) ==
    \E call \in calls :
        LET thrown == handleCallbackThrows(call)
            code == SearchParamsGet(call.url.query, "code")
        IN
        /\ Ready
        /\ FreeSlots # {}
        /\ IF thrown = NoError \/ (thrown # NoError /\ Truthy(code) /\ call.url.ok)
             THEN requests' = Enqueued("handleCallback", "POST", "/oauth/token",
                                       CallbackTokenRequest(call, code))
             ELSE UNCHANGED requests
        /\ last' = IF thrown # NoError
                     THEN Rejected("handleCallback", thrown, call)
                     ELSE Pending("handleCallback", call)
        /\ UNCHANGED <<constructed, config, accessToken, hasWindow, href>>

\* ZuthOAuth.handleCallback: up to the request of exchangeCodeForToken, for
\* the given calls
HandleCallbackFor(calls) ==
    \E call \in calls :
        LET thrown == handleCallbackThrows(call)
            code == SearchParamsGet(call.url.query, "code")
            receivedState == SearchParamsGet(call.url.query, "state")
            warn == ~Truthy(call.originalState) /\ Truthy(receivedState)
        IN
        IF thrown # NoError
          THEN /\ Ready
               /\ last' = Rejected("handleCallback", thrown, call)
               /\ UNCHANGED <<constructed, config, accessToken, requests, hasWindow, href>>
          ELSE /\ Ready
               /\ FreeSlots # {}
               /\ requests' = Enqueued("handleCallback", "POST", "/oauth/token",
                                       CallbackTokenRequest(call, code))
               /\ last' = IF warn THEN ConsoleWarned(Pending("handleCallback", call))
                                  ELSE Pending("handleCallback", call)
               /\ UNCHANGED <<constructed, config, accessToken, hasWindow, href>>

HandleCallback == HandleCallbackFor(CallbackCalls)

(***************************************************************************)
(* The older coordinator, src/src/oauth.ts: it takes no originalState and  *)
(* reads no state.                                                         *)
(***************************************************************************)
\* the calls of the older handleCallback
LegacyCallbackCalls == {CallbackCall(u, UNDEF, UNDEF) : u \in CallbackUrls}

\* handleCallback of oauth.ts that looks at `error` only when no code came
legacyHandleCallbackThrows_CodeFirst(call) ==
    LET urlObj == call.url
        code == SearchParamsGet(urlObj.query, "code")
        error == SearchParamsGet(urlObj.query, "error")
    IN  IF ~urlObj.ok THEN TypeError("Invalid URL")
        ELSE IF Truthy(code) THEN NoError
        ELSE IF Truthy(error) THEN PlainError("OAuth error: " \o error)
        ELSE PlainError("Authorization code not found in callback URL")

\* ZuthOAuth.handleCallback of src/src/oauth.ts: what it throws before the
\* exchange, NoError if nothing
legacyHandleCallbackThrows(call) ==
    LET urlObj == call.url
        code == SearchParamsGet(urlObj.query, "code")
        error == SearchParamsGet(urlObj.query, "error")
    IN  IF ~urlObj.ok THEN TypeError("Invalid URL")
        ELSE IF Truthy(error) THEN PlainError("OAuth error: " \o error)
        ELSE IF ~Truthy(code)
               THEN PlainError("Authorization code not found in callback URL")
        ELSE NoError

\* ZuthOAuth.handleCallback(url, clientId, clientSecret, redirectUri) of
\* src/src/oauth.ts: up to the request of exchangeCodeForToken
LegacyHandleCallback ==
    \E call \in LegacyCallbackCalls :
        LET thrown == legacyHandleCallbackThrows(call)
            code == SearchParamsGet(call.url.query, "code")
        IN
        IF thrown # NoError
          THEN /\ Ready
               /\ last' = Rejected("legacy.handleCallback", thrown, call)
               /\ UNCHANGED <<constructed, config, accessToken, requests, hasWindow, href>>
          ELSE /\ Ready
               /\ FreeSlots # {}
               /\ requests' = Enqueued("legacy.handleCallback", "POST", "/oauth/token",
                                       CallbackTokenRequest(call, code))
               /\ last' = Pending("legacy.handleCallback", call)
               /\ UNCHANGED <<constructed, config, accessToken, hasWindow, href>>

(***************************************************************************)
(* The functions of src/src/security.ts called on their own.  They need no *)
(* instance of the facade.                                                 *)
(***************************************************************************)
SecureUrlInputs ==
    {"https://api.test", "HTTPS://API.TEST", "http://api.test", "https://localhost",
     "http://localhost:3000", "http://LOCALHOST:3000", "http://127.0.0.1:8080",
     "http://127.0.0.2", "http://[::1]:3000", "http://localhost.evil.test",
     "ftp://localhost/pub", "not a url", ""}

Returned(op, args) == Event(op, "call", "returned", NoError, NoValue, args)
Threw(op, error, args) == Event(op, "call", "threw", error, NoValue, args)

\* validateSecureUrl(url, allowLocalhost)
ValidateSecureUrl ==
    /\ last = Idle
    /\ \E url \in SecureUrlInputs, allowLocalhost \in BOOLEAN :
         LET thrown == validateSecureUrl(url, allowLocalhost)
             args == [url |-> url, allowLocalhost |-> allowLocalhost]
         IN  last' = IF thrown = NoError
                       THEN Returned("validateSecureUrl", args)
                       ELSE Threw("validateSecureUrl", thrown, args)
    /\ UNCHANGED <<constructed, config, accessToken, requests, hasWindow, href>>

RedirectUriInputs ==
    RedirectUris \cup {"https://app.test:443/cb", "http://app.test/cb",
                       "https://app.test.evil.test/cb", "myapp://callback/done", ""}

OriginLists ==
    {<<>>, <<"https://app.test">>, <<"https://other.test", "https://app.test">>,
     <<"HTTPS://APP.TEST">>, <<"https://app.test/">>, <<"https://app.test:443">>,
     <<"https://app">>, <<"app.test">>, <<"*">>, <<"myapp://callback">>, <<"null">>}

\* validateRedirectUri(redirectUri, allowedOrigins)
ValidateRedirectUri ==
    /\ last = Idle
    /\ \E redirectUri \in RedirectUriInputs, allowedOrigins \in OriginLists :
         LET thrown == validateRedirectUri(redirectUri, allowedOrigins)
             args == [redirectUri |-> redirectUri, allowedOrigins |-> allowedOrigins]
         IN  last' = IF thrown = NoError
                       THEN Returned("validateRedirectUri", args)
                       ELSE Threw("validateRedirectUri", thrown, args)
    /\ UNCHANGED <<constructed, config, accessToken, requests, hasWindow, href>>

\* fillings of the array: one byte value throughout, around the values where
\* the number of hex digits changes, and fillings that differ from byte to byte
StateArrays ==
    {[i \in 1..StateBytes |-> b] : b \in {0, 1, 9, 10, 15, 16, 17, 127, 128, 171, 255}}
    \cup {[i \in 1..StateBytes |-> (i * m + c) % 256] : m \in {1, 8, 37}, c \in {0, 250}}

\* which generator fills the array: crypto.getRandomValues when the global
\* `crypto` has it, else randomFillSync of require('crypto')
RandomSource(webCrypto) ==
    IF webCrypto THEN "crypto.getRandomValues" ELSE "require('crypto').randomFillSync"

\* generateOAuthState()
GenerateOAuthState ==
    /\ last = Idle
    /\ \E array \in StateArrays, webCrypto \in BOOLEAN :
         last' = Event("generateOAuthState", "call", "returned", NoError,
                       [state |-> generateOAuthState(array), source |-> RandomSource(webCrypto)],
                       [array |-> array, webCrypto |-> webCrypto])
    /\ UNCHANGED <<constructed, config, accessToken, requests, hasWindow, href>>

(***************************************************************************)
(* The caller takes the result of the step that just ran; JavaScript runs  *)
(* each step to completion before the next one starts.                     *)
(***************************************************************************)
Observed ==
    /\ last # Idle
    /\ last' = Idle
    /\ UNCHANGED <<constructed, config, accessToken, requests, hasWindow, href>>

\* no request is in flight
Quiet == FreeSlots = Slots

(***************************************************************************)
(* Specifications.                                                         *)
(***************************************************************************)
\* Token lifecycle and Transport, with up to MaxInflight requests in flight
Next ==
    \/ Construct
    \/ SetAccessToken
    \/ ClearAuth
    \/ ClientSetAccessToken
    \/ ClientClearAccessToken
    \/ RequestInterceptor
    \/ ClientGet
    \/ ForwardSettled
    \/ Login
    \/ LoginSettled
    \/ Logout
    \/ LogoutSettled
    \/ ExchangeCodeForToken
    \/ RefreshToken
    \/ HandleCallbackFor(FewCallbackCalls)
    \/ TokenSettled
    \/ Observed

Spec == Init /\ [][Next]_vars

\* The OAuth coordinator, one flow at a time, on all the calls of the model
NextOAuth ==
    \/ Construct
    \/ SetAccessToken
    \/ GetAuthorizationUrl
    \/ RedirectToAuthorizationFor(FewAuthorizeCalls)
    \/ LegacyGetAuthorizationUrl
    \/ LegacyRedirectToAuthorization
    \/ (Quiet /\ HandleCallback)
    \/ (Quiet /\ LegacyHandleCallback)
    \/ RequestInterceptor
    \/ TokenSettled
    \/ Observed

SpecOAuth == Init /\ [][NextOAuth]_vars

\* Every operation of the SDK, one at a time
NextAll ==
    \/ Construct
    \/ SetAccessToken
    \/ ClearAuth
    \/ ClientSetAccessToken
    \/ ClientClearAccessToken
    \/ RequestInterceptor
    \/ (Quiet /\ ClientGet)
    \/ (Quiet /\ ClientPost)
    \/ (Quiet /\ ClientPut)
    \/ (Quiet /\ ClientDelete)
    \/ ForwardSettled
    \/ (Quiet /\ Register)
    \/ (Quiet /\ Login)
    \/ LoginSettled
    \/ (Quiet /\ GetCurrentUser)
    \/ (Quiet /\ CheckSession)
    \/ CheckSessionSettled
    \/ (Quiet /\ Logout)
    \/ LogoutSettled
    \/ (Quiet /\ GetActiveSessions)
    \/ GetActiveSessionsSettled
    \/ (Quiet /\ RevokeSession)
    \/ (Quiet /\ SetupMfa)
    \/ (Quiet /\ VerifyMfa)
    \/ (Quiet /\ SetupEmailMfa)
    \/ (Quiet /\ SendEmailMfaCode)
    \/ (Quiet /\ VerifyEmailMfaCode)
    \/ GetAuthorizationUrlFor(FewAuthorizeCalls)
    \/ RedirectToAuthorizationFor(FewAuthorizeCalls)
    \/ LegacyGetAuthorizationUrl
    \/ LegacyRedirectToAuthorization
    \/ (Quiet /\ ExchangeCodeForToken)
    \/ (Quiet /\ RefreshToken)
    \/ TokenSettled
    \/ (Quiet /\ GetOidcConfiguration)
    \/ (Quiet /\ HandleCallbackFor(FewCallbackCalls))
    \/ (Quiet /\ LegacyHandleCallback)
    \/ Observed

SpecAll == Init /\ [][NextAll]_vars

\* The facade over every configuration, with a request and the authorization
\* URLs that use its base URL
NextFacade ==
    \/ ConstructFor(AllBaseUrls)
    \/ SetAccessToken
    \/ (Quiet /\ ClientGet)
    \/ RequestInterceptor
    \/ ForwardSettled
    \/ GetAuthorizationUrlFor(FewAuthorizeCalls)
    \/ LegacyGetAuthorizationUrl
    \/ Observed

SpecFacade == Init /\ [][NextFacade]_vars

\* Requests that run to completion: the interceptor chain of a request that
\* was handed to axios runs, axios settles every request that was sent, with
\* a response, a failure or a timeout, and the caller takes every result.
\* The event loop runs one step at a time, so a step that is ready waits for
\* the running one to finish; it is run however many other steps the caller
\* starts (strong fairness)
SettleStep ==
    \/ ForwardSettled
    \/ CheckSessionSettled
    \/ LogoutSettled

NextLive ==
    \/ Construct
    \/ SetAccessToken
    \/ ClientGet
    \/ CheckSession
    \/ Logout
    \/ RequestInterceptor
    \/ SettleStep
    \/ Observed

SpecLive ==
    /\ Init
    /\ [][NextLive]_vars
    /\ \A i \in Slots : SF_vars(RequestInterceptor /\ last'.slot = i)
    /\ \A i \in Slots : SF_vars(SettleStep /\ last'.slot = i)
    /\ WF_vars(Observed)

\* The functions of security.ts on their inputs
NextSecurity ==
    \/ ValidateSecureUrl
    \/ ValidateRedirectUri
    \/ GenerateOAuthState
    \/ Observed

SpecSecurity == Init /\ [][NextSecurity]_vars

(***************************************************************************)
(* Properties.                                                             *)
(***************************************************************************)
CsrfErrors ==
    {PlainError("OAuth state parameter is missing. This may indicate a CSRF attack."),
     PlainError("OAuth state parameter mismatch. This may indicate a CSRF attack.")}

CodeNotFound == PlainError("Authorization code not found in callback URL")

\* the step just taken was a call of handleCallback (of part_000) with a
\* well-formed callback URL
IsCallbackCall(e) == e.op = "handleCallback" /\ e.step = "call" /\ e.args.url.ok

ReceivedState(e) == SearchParamsGet(e.args.url.query, "state")
ReceivedCode(e) == SearchParamsGet(e.args.url.query, "code")
ReceivedError(e) == SearchParamsGet(e.args.url.query, "error")

\* the step issued no request and left the slot alone
NothingSent == requests' = requests /\ accessToken' = accessToken

\* C1 as stated: whenever the caller supplies originalState and the callback's
\* state is absent or differs from it, handleCallback fails with a CSRF error,
\* no request is issued and the token slot is unchanged.
C1_AsStated ==
    [][(/\ IsCallbackCall(last')
        /\ last'.args.originalState # UNDEF
        /\ ReceivedState(last') # last'.args.originalState)
       => (/\ last'.outcome = "rejected"
           /\ last'.error \in CsrfErrors
           /\ NothingSent)]_vars

\* C1 amended: whenever the caller supplies a non-empty originalState and the
\* callback's state is absent or is not exactly that string, handleCallback
\* fails, no request is issued and the token slot is unchanged; the failure
\* is the CSRF error when the callback carries a non-empty code and no
\* non-empty error, and the OAuth error of the earlier checks otherwise.
C1_CsrfRejected ==
    [][(/\ IsCallbackCall(last')
        /\ Truthy(last'.args.originalState)
        /\ ReceivedState(last') # last'.args.originalState)
       => (/\ last'.outcome = "rejected"
           /\ NothingSent
           /\ IF Truthy(ReceivedError(last'))
                THEN last'.error = PlainError("OAuth error: " \o ReceivedError(last'))
                ELSE IF ~Truthy(ReceivedCode(last'))
                       THEN last'.error = CodeNotFound
                       ELSE last'.error \in CsrfErrors)]_vars

\* a callback whose state differs from originalState only by case was
\* rejected with the mismatch error while a token was installed
C1_Witness ==
    /\ IsCallbackCall(last)
    /\ last.args.originalState = "S"
    /\ ReceivedState(last) = "s"
    /\ ReceivedCode(last) = "abc"
    /\ last.outcome = "rejected"
    /\ last.error = PlainError("OAuth state parameter mismatch. This may indicate a CSRF attack.")
    /\ accessToken = "t1"

\* the step just taken settled one of these operations successfully
Resolved(e, ops) == e.step = "settle" /\ e.op \in ops /\ e.outcome = "resolved"

ExchangeOps == {"exchangeCodeForToken", "refreshToken", "handleCallback"}

\* C2 as stated: isAuthenticated() is false right after construction, true
\* right after any successful login, code exchange, refresh or setAccessToken,
\* and false right after clearAuth.
C2_AsStated ==
    /\ (last.op = "constructor" /\ last.outcome = "returned") => ~isAuthenticated
    /\ Resolved(last, {"login"} \cup ExchangeOps) => isAuthenticated
    /\ last.op = "setAccessToken" => isAuthenticated
    /\ last.op = "clearAuth" => ~isAuthenticated

\* C2 amended: isAuthenticated() is false right after construction, true right
\* after setAccessToken and right after a successful login, code exchange or
\* refresh whose response carries a non-empty access_token, and false right
\* after clearAuth.
C2_AuthenticatedAfter ==
    /\ (last.op = "constructor" /\ last.outcome = "returned") => ~isAuthenticated
    /\ (Resolved(last, {"login"} \cup ExchangeOps) /\ Truthy(last.value.access_token))
          => isAuthenticated
    /\ last.op = "setAccessToken" => isAuthenticated
    /\ last.op = "clearAuth" => ~isAuthenticated

\* a login has just resolved with a token, and the instance is authenticated
C2_Witness ==
    /\ Resolved(last, {"login"})
    /\ last.value.access_token = "t1"
    /\ isAuthenticated

\* C3 as stated: whenever exchangeCodeForToken, refreshToken or handleCallback
\* completes successfully, the token slot holds the access_token of that
\* response.
C3_AsStated ==
    Resolved(last, ExchangeOps) => accessToken = last.value.access_token

\* C3 amended: whenever exchangeCodeForToken, refreshToken or handleCallback
\* completes successfully with a response that carries a non-empty
\* access_token, the token slot holds exactly that access_token.
C3_AutoInstall ==
    (Resolved(last, ExchangeOps) /\ Truthy(last.value.access_token))
        => accessToken = last.value.access_token

\* a handleCallback has just resolved and its token is in the slot
C3_Witness ==
    /\ Resolved(last, {"handleCallback"})
    /\ last.value.access_token = "t2"
    /\ accessToken = "t2"

\* the step just taken was a call of handleCallback, of either coordinator,
\* with a well-formed callback URL
IsAnyCallbackCall(e) ==
    e.op \in {"handleCallback", "legacy.handleCallback"} /\ e.step = "call" /\ e.args.url.ok

\* C4 as stated: for every callback URL whose query contains an `error`
\* parameter, handleCallback fails with the OAuth error carrying that code,
\* issues no request and leaves the token slot unchanged.
C4_AsStated ==
    [][(IsAnyCallbackCall(last') /\ ReceivedError(last') # NULL)
       => (/\ last'.outcome = "rejected"
           /\ last'.error = PlainError("OAuth error: " \o ReceivedError(last'))
           /\ NothingSent)]_vars

\* C4 amended: for every callback URL whose query contains a non-empty `error`
\* parameter, handleCallback fails with the OAuth error carrying that code,
\* issues no request and leaves the token slot unchanged.
C4_ProviderError ==
    [][(IsAnyCallbackCall(last') /\ Truthy(ReceivedError(last')))
       => (/\ last'.outcome = "rejected"
           /\ last'.error = PlainError("OAuth error: " \o ReceivedError(last'))
           /\ NothingSent)]_vars

\* a callback carrying both an error and a code was rejected with the OAuth
\* error while a token was installed
C4_Witness ==
    /\ IsCallbackCall(last)
    /\ ReceivedError(last) = "access_denied"
    /\ ReceivedCode(last) = "abc"
    /\ last.outcome = "rejected"
    /\ last.error = PlainError("OAuth error: access_denied")
    /\ accessToken = "t1"

\* C5: for every callback URL with neither a `code` nor an `error` parameter,
\* handleCallback fails with the "authorization code not found" error, issues
\* no request and leaves the token slot unchanged.
C5_CodeNotFound ==
    [][(/\ IsAnyCallbackCall(last')
        /\ ReceivedCode(last') = NULL
        /\ ReceivedError(last') = NULL)
       => (/\ last'.outcome = "rejected"
           /\ last'.error = CodeNotFound
           /\ NothingSent)]_vars

\* a callback with a matching state but no code and no error was rejected
\* with "code not found" while a token was installed
C5_Witness ==
    /\ IsCallbackCall(last)
    /\ ReceivedCode(last) = NULL
    /\ ReceivedError(last) = NULL
    /\ ReceivedState(last) = "S"
    /\ last.args.originalState = "S"
    /\ last.outcome = "rejected"
    /\ last.error = CodeNotFound
    /\ accessToken = "t1"

\* the step just taken was a call of getAuthorizationUrl with an allow-list
\* that does not hold the origin of a well-formed params.redirectUri
IsDisallowedRedirect(e) ==
    /\ e.op = "getAuthorizationUrl"
    /\ e.args.allowedOrigins.supplied
    /\ ParseUrl(e.args.params.redirectUri).ok
    /\ ~Includes(e.args.allowedOrigins.origins,
                 UrlOrigin(ParseUrl(e.args.params.redirectUri)))

\* the redirect error of that call
RedirectNotAllowed(e) ==
    NotAllowedError(e.args.params.redirectUri, e.args.allowedOrigins.origins)

\* C6 as stated: whenever an allowedOrigins list is supplied to
\* getAuthorizationUrl and the origin of params.redirectUri is not a member,
\* the call fails with the redirect error and returns no URL and no state,
\* whatever the size of the list.
C6_AsStated ==
    IsDisallowedRedirect(last)
        => (/\ last.outcome = "threw"
            /\ last.error = RedirectNotAllowed(last)
            /\ last.value = NoValue)

\* C6 amended: whenever a non-empty allowedOrigins list is supplied to
\* getAuthorizationUrl and the origin of params.redirectUri is not a member,
\* the call fails with the redirect error and returns no URL and no state.
C6_RedirectAllowList ==
    (IsDisallowedRedirect(last) /\ Len(last.args.allowedOrigins.origins) > 0)
        => (/\ last.outcome = "threw"
            /\ last.error = RedirectNotAllowed(last)
            /\ last.value = NoValue)

\* a redirect URI on another port of an allowed host was refused
C6_Witness ==
    /\ IsDisallowedRedirect(last)
    /\ last.args.params.redirectUri = "https://app.test:8443/cb"
    /\ last.args.allowedOrigins = AllowList(<<"https://app.test">>)
    /\ last.outcome = "threw"
    /\ last.error = RedirectNotAllowed(last)

\* the header the claim as stated expects for a slot value
BearerOfNonNull(token) == IF token # NULL THEN "Bearer " \o token ELSE UNDEF

\* the header expected for a slot value: one for a non-empty string only
BearerOfNonEmpty(token) == IF Truthy(token) THEN "Bearer " \o token ELSE UNDEF

Dispatched(i) == requests[i].phase = "queued" /\ requests'[i].phase = "sent"
StaysDispatched(i) == requests[i].phase = "sent" /\ requests'[i].phase = "sent"

\* C7 as stated: every request dispatched while the token slot is non-null
\* carries `Bearer <slot at dispatch>`, a request dispatched while the slot is
\* null carries no Authorization header, and later writes to the slot never
\* change an already-dispatched request.
C7_AsStated ==
    [][\A i \in Slots :
         /\ Dispatched(i) => requests'[i].authorization = BearerOfNonNull(accessToken)
         /\ StaysDispatched(i) => requests'[i].authorization = requests[i].authorization
      ]_vars

\* C7 amended: every request dispatched while the token slot holds a
\* non-empty string carries `Bearer <slot at dispatch>`, a request dispatched
\* while the slot is null, undefined or the empty string carries no
\* Authorization header, and later writes to the slot never change an
\* already-dispatched request.
C7_BearerAtDispatch ==
    [][\A i \in Slots :
         /\ Dispatched(i) => requests'[i].authorization = BearerOfNonEmpty(accessToken)
         /\ StaysDispatched(i) => requests'[i].authorization = requests[i].authorization
      ]_vars

\* a request dispatched under token t1 still carries it after the slot was
\* overwritten with t2, while a request dispatched afterwards carries t2
C7_Witness ==
    /\ accessToken = "t2"
    /\ \E i, j \in Slots :
         /\ requests[i].phase = "sent"
         /\ requests[i].authorization = "Bearer t1"
         /\ requests[j].phase = "sent"
         /\ requests[j].authorization = "Bearer t2"

TransportOps == {"client.get", "client.post", "client.put", "client.delete"}

\* C8 as stated: every failure of a Transport request that reaches the caller
\* is a ZuthSDKError, whatever the response (structured body, malformed or
\* absent body, no response, request that could not be sent).
C8_AsStated ==
    (last.step = "settle" /\ last.op \in TransportOps /\ last.outcome = "rejected")
        => last.error.name = "ZuthSDKError"

\* the operations after which the token slot may differ
Setters == {"setAccessToken", "clearAuth", "client.setAccessToken",
            "client.clearAccessToken"}
Installers == {"login", "exchangeCodeForToken", "refreshToken", "handleCallback",
               "legacy.handleCallback"}

\* C9: the token slot changes only in a set/clear call, in the install after
\* a login, code exchange or refresh that succeeded, and in logout's clear;
\* every other step, and a login, exchange or refresh that fails, leaves it
\* unchanged.
C9_TokenSlotFrame ==
    [][accessToken' # accessToken
         => \/ last'.op \in Setters /\ last'.step = "call"
            \/ last'.op \in Installers /\ last'.step = "settle"
                 /\ last'.outcome = "resolved"
            \/ last'.op = "logout" /\ last'.step = "settle"
      ]_vars

\* a login failed and the token installed before it is still in the slot
C9_Witness ==
    /\ last.op = "login"
    /\ last.step = "settle"
    /\ last.outcome = "rejected"
    /\ last.error.name = "ZuthSDKError"
    /\ accessToken = "t1"

\* the errors of the validation steps
ValidationErrors ==
    CsrfErrors
    \cup {NotAllowedError(c.params.redirectUri, c.allowedOrigins.origins) :
             c \in AuthorizeCalls}
    \cup {InvalidRedirectError(r) : r \in RedirectUris}
    \cup {PlainError("redirectToAuthorization can only be used in browser environments"),
          PlainError("baseUrl is required in Zuth configuration"),
          PlainError("Invalid email format"),
          PlainError("Password must be at least 8 characters long")}

\* C10: whenever an operation fails with a validation error (CSRF state,
\* redirect allow-list, missing browser environment, missing baseUrl, the
\* email and password checks of login and register), it has issued no network
\* request, the token slot is unchanged and no navigation was performed.
C10_FailFast ==
    [][last'.error \in ValidationErrors
         => /\ last'.step = "call"
            /\ requests' = requests
            /\ accessToken' = accessToken
            /\ href' = href
            /\ constructed' = constructed
      ]_vars

\* a callback failed the state check while a token was installed and nothing
\* was in flight
C10_Witness ==
    /\ last.op = "handleCallback"
    /\ last.outcome = "rejected"
    /\ last.error \in CsrfErrors
    /\ ReceivedState(last) = "WRONG"
    /\ accessToken = "t1"
    /\ href = "about:blank"
    /\ Quiet

\* the operations that write a token they received
Writers == {"login"} \cup ExchangeOps

\* a login, exchange or refresh is still in flight in another position
OtherWriterInFlight(e) ==
    \E j \in Slots : j # e.slot /\ requests[j].op \in Writers /\ requests[j].phase = "sent"

\* C11 as stated: whichever login, exchange or refresh has its response
\* processed, in whatever order they were dispatched, the slot then holds the
\* access token of that response; so after all of them completed it holds
\* the token of the response processed last.
C11_AsStated ==
    [][Resolved(last', Writers) => accessToken' = last'.value.access_token]_vars

\* C11 amended: each processed response of a login installs its access_token,
\* each processed response of an exchange or refresh installs its
\* access_token when that is non-empty, and a failed operation or an
\* exchange response without a token leaves the slot as it was; so after all
\* of them completed the slot holds the token of the last response that
\* installed one, whatever the dispatch order, and never any other value.
C11_LastWriterWins ==
    [][(last'.step = "settle" /\ last'.op \in Writers)
         => accessToken' =
              IF last'.outcome = "resolved"
                   /\ (last'.op = "login" \/ Truthy(last'.value.access_token))
                THEN last'.value.access_token
                ELSE accessToken
      ]_vars

\* a login dispatched second was processed first and installed t1 while the
\* exchange dispatched before it, under token t2, is still in flight
C11_Witness ==
    /\ Resolved(last, {"login"})
    /\ last.slot = 2
    /\ last.value.access_token = "t1"
    /\ accessToken = "t1"
    /\ requests[1].op = "exchangeCodeForToken"
    /\ requests[1].phase = "sent"
    /\ requests[1].authorization = "Bearer t2"
    /\ OtherWriterInFlight(last)

\* C12 as stated: in every reachable state, if the instance is authenticated
\* (the token slot is non-null) then the slot holds a non-empty token string.
C12_AsStated ==
    (constructed /\ isAuthenticated) => Truthy(accessToken)

\* the step just taken settled a request of any operation
IsSettle(e) == e.step = "settle"

\* what axios settled that request with
Axios(e) == e.args

\* C13 as stated: when logout() completes, whether POST /auth/logout
\* succeeded or failed, the token slot is null and isAuthenticated() is
\* false, and on a failed request the normalized error is propagated to the
\* caller.
C13_AsStated ==
    (IsSettle(last) /\ last.op = "logout")
        => /\ accessToken = NULL
           /\ ~isAuthenticated
           /\ Axios(last).kind = "fulfilled" => last.outcome = "resolved"
           /\ Axios(last).kind # "fulfilled"
                => (last.outcome = "rejected" /\ last.error.name = "ZuthSDKError")

\* a field of the payload when present, else the default
PresentOr(field, default) == IF field = UNDEF THEN default ELSE field
PresentNumOr(field, default) == IF field = UndefNum THEN default ELSE field

\* C14 as stated: when the server responds with an error, the error delivered
\* to the caller has the payload's message when present else a generic
\* string, the payload's statusCode when present else the HTTP status, the
\* payload's error field when present else "UnknownError", and the payload's
\* details.
C14_AsStated ==
    (IsSettle(last) /\ last.op \in TransportOps /\ Axios(last).kind = "response")
        => /\ last.outcome = "rejected"
           /\ last.error =
                ZuthSDKError(PresentOr(Axios(last).data.message, "An error occurred"),
                             PresentNumOr(Axios(last).data.statusCode, Axios(last).status),
                             PresentOr(Axios(last).data.error, "UnknownError"),
                             Axios(last).data.details)

\* C15 as stated: a request that was sent but received no response yields
\* exactly SdkError{"Unable to reach the server", 0, "NetworkError"}, and a
\* request that could not be constructed or sent yields statusCode 0 and kind
\* "UnknownError".
C15_AsStated ==
    (IsSettle(last) /\ last.op \in TransportOps)
        => /\ Axios(last).kind = "request"
                => last.error = ZuthSDKError("Unable to reach the server", 0,
                                             "NetworkError", UNDEF)
           /\ Axios(last).kind = "setup"
                => (/\ last.error.name = "ZuthSDKError"
                    /\ last.error.statusCode = 0
                    /\ last.error.error = "UnknownError")

\* C15 amended: a request that was sent but received no response yields
\* exactly SdkError{"Network error: Unable to reach the server", 0,
\* "NetworkError"} without details, and a request that could not be
\* constructed or sent yields SdkError{statusCode 0, kind "UnknownError"}
\* whose message is the underlying message, or "An unexpected error occurred"
\* when that is empty.
C15_NoResponse ==
    (IsSettle(last) /\ last.op \in TransportOps)
        => /\ Axios(last).kind = "request"
                => (/\ last.outcome = "rejected"
                    /\ last.error = ZuthSDKError("Network error: Unable to reach the server",
                                                 0, "NetworkError", UNDEF))
           /\ Axios(last).kind = "setup"
                => (/\ last.outcome = "rejected"
                    /\ last.error =
                         ZuthSDKError(IF Axios(last).message = ""
                                        THEN "An unexpected error occurred"
                                        ELSE Axios(last).message,
                                      0, "UnknownError", UNDEF))

\* a put that could not be sent was rejected with the message of the
\* underlying error and status 0
C15_Witness ==
    /\ IsSettle(last)
    /\ last.op = "client.put"
    /\ Axios(last).kind = "setup"
    /\ Axios(last).message = "Invalid URL"
    /\ last.outcome = "rejected"
    /\ last.error = ZuthSDKError("Invalid URL", 0, "UnknownError", UNDEF)

\* the status the failure of a request carries: the payload's statusCode
\* when the payload has one, else the HTTP status
FailureStatus(axios) ==
    IF axios.kind = "response"
      THEN PresentNumOr(axios.data.statusCode, axios.status)
      ELSE 0

\* C16 as stated: checkSession() returns {valid: true, user} when GET /auth/me
\* succeeds, returns {valid: false} without throwing when the request fails
\* with status 401, and rethrows the normalized error for every other
\* failure.
C16_AsStated ==
    (IsSettle(last) /\ last.op = "checkSession")
        => IF Axios(last).kind = "fulfilled"
             THEN /\ last.outcome = "resolved"
                  /\ last.value = [user |-> Axios(last).data, valid |-> TRUE]
             ELSE IF FailureStatus(Axios(last)) = 401
                    THEN /\ last.outcome = "resolved"
                         /\ last.value = [user |-> UndefinedBody, valid |-> FALSE]
                    ELSE /\ last.outcome = "rejected"
                         /\ last.error.name = "ZuthSDKError"

\* the step just taken was a call of handleCallback, of either coordinator,
\* with a well-formed callback URL that carries a code and no error
IsExchangingCallback(e) ==
    /\ e.op \in {"handleCallback", "legacy.handleCallback"}
    /\ e.step = "call"
    /\ e.args.url.ok
    /\ Truthy(ReceivedCode(e))
    /\ ReceivedError(e) = NULL

StateValidated(e) ==
    Truthy(e.args.originalState) /\ ReceivedState(e) = e.args.originalState

\* C17 as stated: when handleCallback is called with a code, no error and no
\* originalState and the callback carries a state, a warning is emitted and
\* the exchange is still performed; when originalState is supplied and
\* matches, or the callback carries no state and none is supplied, no warning
\* is emitted; a callback state is never accepted without either validation
\* or a warning.
C17_AsStated ==
    [][IsExchangingCallback(last')
       => (/\ (last'.args.originalState = UNDEF /\ Truthy(ReceivedState(last')))
                => (/\ last'.warned
                    /\ last'.outcome = "pending"
                    /\ requests' # requests)
           /\ (\/ StateValidated(last')
               \/ (last'.args.originalState = UNDEF /\ ReceivedState(last') = NULL))
                => ~last'.warned
           /\ (last'.outcome = "pending" /\ Truthy(ReceivedState(last')))
                => (StateValidated(last') \/ last'.warned))]_vars

\* reading a URL back, as new URL(url).searchParams.get(name) does: the text
\* between the first `name=` that follows "?" or "&" and the next "&",
\* form-decoded; null when the query has no such parameter
Unescaped(escape) ==
    CASE escape = "%3A" -> ":"
      [] escape = "%2F" -> "/"
      [] escape = "%3F" -> "?"
      [] escape = "%3D" -> "="
      [] escape = "%26" -> "&"
      [] escape = "%40" -> "@"

FormDecodeAt(s, k) ==
    IF CharAt(s, k) = "%" THEN Unescaped(SubSeq(s, k, k + 2))
    ELSE IF CharAt(s, k) = "+" THEN " "
    ELSE IF (k > 1 /\ CharAt(s, k - 1) = "%") \/ (k > 2 /\ CharAt(s, k - 2) = "%") THEN ""
    ELSE CharAt(s, k)

RECURSIVE FormDecodeRange(_, _, _)
FormDecodeRange(s, from, to) ==
    IF from > to THEN ""
    ELSE IF from = to THEN FormDecodeAt(s, from)
    ELSE LET half == (from + to) \div 2
         IN  FormDecodeRange(s, from, half) \o FormDecodeRange(s, half + 1, to)

ParamStarts(url, name) ==
    {k \in 2..Len(url) :
        /\ CharAt(url, k - 1) \in {"?", "&"}
        /\ k + Len(name) <= Len(url)
        /\ SubSeq(url, k, k + Len(name)) = name \o "="}

Least(S) == CHOOSE k \in S : \A j \in S : k <= j

UrlParam(url, name) ==
    IF ParamStarts(url, name) = {} THEN NULL
    ELSE LET from == Least(ParamStarts(url, name)) + Len(name) + 1
             to == Least({k \in from..(Len(url) + 1) :
                             k = Len(url) + 1 \/ CharAt(url, k) = "&"}) - 1
         IN  FormDecodeRange(url, from, to)

\* what the caller of getAuthorizationUrl gets as `url` and as `state`: the
\* coordinator of oauth.ts returns the URL itself, a string, which has no
\* property `state`
IsAuthorizationUrlReturned(e) ==
    /\ e.op \in {"getAuthorizationUrl", "legacy.getAuthorizationUrl"}
    /\ e.outcome = "returned"
ReturnedUrl(e) == IF e.op = "legacy.getAuthorizationUrl" THEN e.value ELSE e.value.url
ReturnedState(e) == IF e.op = "legacy.getAuthorizationUrl" THEN UNDEF ELSE e.value.state

GeneratedStates == {generateOAuthState(array) : array \in RandomArrays}

\* C18 as stated: getAuthorizationUrl always returns the state it used: the
\* returned state is the state parameter of the returned URL, which is always
\* there; it is params.state when the caller supplied one and a freshly
\* generated value otherwise.
C18_AsStated ==
    IsAuthorizationUrlReturned(last)
        => /\ UrlParam(ReturnedUrl(last), "state") # NULL
           /\ ReturnedState(last) = UrlParam(ReturnedUrl(last), "state")
           /\ Truthy(last.args.params.state)
                => ReturnedState(last) = last.args.params.state
           /\ last.args.params.state = UNDEF
                => ReturnedState(last) \in GeneratedStates

EnvironmentError ==
    PlainError("redirectToAuthorization can only be used in browser environments")

IsRedirectCall(e) ==
    /\ e.op \in {"redirectToAuthorization", "legacy.redirectToAuthorization"}
    /\ e.step = "call"

\* the redirect URI of the call is refused by the allow-list of the call
RedirectRefused(call) ==
    /\ call.allowedOrigins.supplied
    /\ Len(call.allowedOrigins.origins) > 0
    /\ validateRedirectUri(call.params.redirectUri, call.allowedOrigins.origins) # NoError

\* the authorization URLs of a call, over the states that may be generated
AuthorizationUrls(e) ==
    IF e.op = "legacy.redirectToAuthorization"
      THEN {legacyGetAuthorizationUrl(e.args.params)}
      ELSE {getAuthorizationUrl(e.args.params, e.args.allowedOrigins, array).url :
               array \in RandomArrays}

\* what the caller of redirectToAuthorization gets as the state: the
\* coordinator of oauth.ts returns nothing
RedirectState(e) ==
    IF e.op = "legacy.redirectToAuthorization" THEN UNDEF ELSE e.value.state

\* C19 as stated: without a window redirectToAuthorization fails with the
\* environment error and does not navigate, whatever the redirect URI; with a
\* window and a refused redirect URI it fails and does not navigate; otherwise
\* it navigates to the authorization URL and returns the state that is in
\* that URL.
C19_AsStated ==
    [][IsRedirectCall(last')
       => IF ~hasWindow
            THEN /\ last'.outcome = "threw"
                 /\ last'.error = EnvironmentError
                 /\ href' = href
            ELSE IF RedirectRefused(last'.args)
                   THEN /\ last'.outcome = "threw"
                        /\ href' = href
                   ELSE /\ last'.outcome = "returned"
                        /\ href' \in AuthorizationUrls(last')
                        /\ RedirectState(last') = UrlParam(href', "state")]_vars

ConfigError == PlainError("baseUrl is required in Zuth configuration")

IsConstructorCall(e) == e.op = "constructor" /\ e.step = "call"

EndsWithSlash(s) == Len(s) > 0 /\ CharAt(s, Len(s)) = "/"

\* the base URL is the configured one less one trailing slash
OneSlashRemoved(baseUrl, configured) ==
    IF EndsWithSlash(configured)
      THEN baseUrl \o "/" = configured
      ELSE baseUrl = configured

\* the constructor returned the facade whose Transport has that base URL
ConstructedFrom(configured) ==
    /\ last'.outcome = "returned"
    /\ constructed'
    /\ OneSlashRemoved(config'.baseUrl, configured)

\* the constructor failed and built nothing
NothingConstructed ==
    /\ last'.outcome = "threw"
    /\ last'.error = ConfigError
    /\ ~constructed'
    /\ config' = config

\* an authorization URL starts with the base URL of the Transport
OnBaseUrl(url) ==
    SubSeq(url, 1, Len(config.baseUrl) + Len("/oauth/authorize?"))
        = config.baseUrl \o "/oauth/authorize?"

\* C20 as stated: the constructor fails with the configuration error and
\* creates no Transport if baseUrl is absent; otherwise the base URL of the
\* Transport and of the authorization URLs is the configured baseUrl less
\* exactly one trailing slash.
C20_AsStated ==
    [][/\ IsConstructorCall(last')
            => IF last'.args.baseUrl = UNDEF
                 THEN NothingConstructed
                 ELSE ConstructedFrom(last'.args.baseUrl)
       /\ IsAuthorizationUrlReturned(last') => OnBaseUrl(ReturnedUrl(last'))]_vars

\* C20 amended: the constructor fails with the configuration error and
\* creates no Transport if baseUrl is absent or the empty string; otherwise
\* the base URL of the Transport and of the authorization URLs is the
\* configured baseUrl less exactly one trailing slash.
C20_Normalized ==
    [][/\ IsConstructorCall(last')
            => IF last'.args.baseUrl \in {UNDEF, ""}
                 THEN NothingConstructed
                 ELSE ConstructedFrom(last'.args.baseUrl)
       /\ IsAuthorizationUrlReturned(last') => OnBaseUrl(ReturnedUrl(last'))]_vars

\* an authorization URL was built on a base URL that was configured with two
\* trailing slashes and kept one
C20_Witness ==
    /\ constructed
    /\ config.baseUrl = "https://api.test/"
    /\ IsAuthorizationUrlReturned(last)
    /\ last.op = "getAuthorizationUrl"
    /\ SubSeq(ReturnedUrl(last), 1, 33) = "https://api.test//oauth/authorize"

\* the requests handed to axios that have not settled
InFlight == {i \in Slots : requests[i].phase # "free"}

\* the step handed exactly one new request to axios and touched no other
OneMoreRequest ==
    \E i \in Slots :
        /\ requests[i].phase = "free"
        /\ requests'[i].phase = "queued"
        /\ requests'[i].op = last'.op
        /\ \A j \in Slots \ {i} : requests'[j] = requests[j]

\* the request interceptor of request i runs as the next step
Dispatch(i) == RequestInterceptor /\ last'.slot = i

\* C21: no retry, no queuing.  A call hands exactly one request to axios when
\* it passes its checks and none when it fails them; a request that was sent
\* is never sent again: it stays sent until it settles, and settling it, with
\* a result or with a failure, frees it and hands over no other request; and
\* the dispatch of a request never waits for another request: whenever the
\* event loop is free, every request that was handed over can be dispatched.
C21_NoRetryNoQueue ==
    [][/\ last'.step = "call"
            => IF last'.outcome = "pending" THEN OneMoreRequest ELSE requests' = requests
       /\ last'.step = "settle"
            => (/\ requests[last'.slot].phase = "sent"
                /\ requests' = Released(last'.slot))
       /\ last'.step = "intercept"
            => (/\ requests[last'.slot].phase = "queued"
                /\ requests'[last'.slot].phase = "sent"
                /\ \A j \in Slots \ {last'.slot} : requests'[j] = requests[j])
       /\ last'.step = "idle" => requests' = requests
       /\ \A i \in Slots :
            (Ready /\ requests[i].phase = "queued") => ENABLED Dispatch(i)]_vars

\* a request failed with nothing coming back while another request, handed
\* over later, had already been dispatched; the failed one is gone
C21_Witness ==
    /\ last.step = "settle"
    /\ last.op = "client.get"
    /\ last.outcome = "rejected"
    /\ Axios(last).kind = "request"
    /\ last.slot = 1
    /\ requests[1] = NoRequest
    /\ requests[2].phase = "sent"

\* the base URL is one validateSecureUrl lets through, localhost allowed
SecureBaseUrl == validateSecureUrl(config.baseUrl, TRUE) = NoError

\* C22 as stated: an instance configured with a baseUrl that is neither HTTPS
\* nor a loopback host never dispatches a request that carries the bearer
\* token.
C22_AsStated ==
    \A i \in Slots :
        (requests[i].phase = "sent" /\ requests[i].authorization # UNDEF) => SecureBaseUrl

IsSecureUrlCall(e) == e.op = "validateSecureUrl" /\ e.step = "call"

\* loopback hosts: the name localhost, the addresses of 127.0.0.0/8 and ::1
LoopbackHosts == {"localhost", "127.0.0.1", "127.0.0.2", "[::1]"}

\* C23 as stated: validateSecureUrl(url, allowLocalhost) returns iff the URL
\* parses and its scheme is https or allowLocalhost is true and its host is a
\* loopback host; every failure is of the same kind, a malformed URL included.
C23_AsStated ==
    IsSecureUrlCall(last)
        => LET urlObj == ParseUrl(last.args.url) IN
           /\ last.outcome = "returned"
                <=> (/\ urlObj.ok
                     /\ \/ urlObj.protocol = "https:"
                        \/ (last.args.allowLocalhost /\ urlObj.hostname \in LoopbackHosts))
           /\ last.outcome # "returned"
                => (last.outcome = "threw" /\ last.error.name = "Error")

\* C23 amended: validateSecureUrl(url, allowLocalhost) returns iff the URL
\* parses and its scheme is https or allowLocalhost is true and its host name
\* is exactly localhost or 127.0.0.1; every failure is a plain Error, a
\* malformed URL included (with the message "Invalid URL: <url>").
C23_SecureUrl ==
    IsSecureUrlCall(last)
        => LET urlObj == ParseUrl(last.args.url) IN
           /\ last.outcome = "returned"
                <=> (/\ urlObj.ok
                     /\ \/ urlObj.protocol = "https:"
                        \/ (/\ last.args.allowLocalhost
                            /\ urlObj.hostname \in {"localhost", "127.0.0.1"}))
           /\ last.outcome # "returned"
                => (/\ last.outcome = "threw"
                    /\ last.error.name = "Error"
                    /\ ~urlObj.ok => last.error.message = "Invalid URL: " \o last.args.url)

\* a plain-http loopback URL was refused because allowLocalhost was false
C23_Witness ==
    /\ IsSecureUrlCall(last)
    /\ last.args.url = "http://127.0.0.1:8080"
    /\ ~last.args.allowLocalhost
    /\ last.outcome = "threw"
    /\ last.error = InsecureUrlError

IsRedirectUriCall(e) == e.op = "validateRedirectUri" /\ e.step = "call"

\* scheme + host + port of a parsed URI, the default port left out
SchemeHostPort(u) == u.protocol \o "//" \o u.host

\* C24: validateRedirectUri(uri, allowedOrigins) returns iff the URI parses
\* and its origin, scheme + host + port, is literally one of allowedOrigins
\* (no prefix, suffix, wildcard or other letter case), for a URI of a custom
\* scheme as well; a malformed URI and a URI that is not allowed fail with
\* the same kind of error, a plain Error.
C24_RedirectOrigin ==
    IsRedirectUriCall(last)
        => LET uriObj == ParseUrl(last.args.redirectUri) IN
           /\ last.outcome = "returned"
                <=> (uriObj.ok /\ Includes(last.args.allowedOrigins, SchemeHostPort(uriObj)))
           /\ last.outcome # "returned"
                => (last.outcome = "threw" /\ last.error.name = "Error")

\* a URI on a host whose name starts with an allowed host was refused
C24_Witness ==
    /\ IsRedirectUriCall(last)
    /\ last.args.redirectUri = "https://app.test.evil.test/cb"
    /\ last.args.allowedOrigins = <<"https://app.test">>
    /\ last.outcome = "threw"
    /\ last.error = NotAllowedError("https://app.test.evil.test/cb", <<"https://app.test">>)

\* the caller of the request of slot i resumes with a decoded value or with a
\* normalized error
Resumed(i) ==
    /\ last.step = "settle"
    /\ last.slot = i
    /\ \/ last.outcome = "resolved"
       \/ (last.outcome = "rejected" /\ last.error.name = "ZuthSDKError")

\* C25 as stated: every network operation that was started eventually resumes
\* its caller with a decoded value or a normalized SdkError, whatever the
\* other requests do, provided axios settles every request it was given.
C25_AsStated ==
    \A i \in Slots : (requests[i].phase # "free") ~> Resumed(i)

IsGenerateCall(e) == e.op = "generateOAuthState" /\ e.step = "call"

HexChars == {"0", "1", "2", "3", "4", "5", "6", "7", "8", "9", "a", "b", "c", "d", "e", "f"}

\* the two lowercase hexadecimal digits of a byte, high digit first
TwoDigits(byte) == HexDigit(byte \div 16) \o HexDigit(byte % 16)

\* C26: generateOAuthState renders the 32 bytes as exactly 64 lowercase
\* hexadecimal characters, characters 2k-1 and 2k being the two digits of byte
\* k with its leading zero, whatever the bytes are; and the bytes come from
\* crypto.getRandomValues or from randomFillSync of Node's crypto.
C26_HexState ==
    IsGenerateCall(last)
        => /\ Len(last.args.array) = 32
           /\ Len(last.value.state) = 64
           /\ \A k \in 1..64 : CharAt(last.value.state, k) \in HexChars
           /\ \A k \in 1..32 :
                SubSeq(last.value.state, 2 * k - 1, 2 * k) = TwoDigits(last.args.array[k])
           /\ last.value.source \in {"crypto.getRandomValues", "require('crypto').randomFillSync"}

\* a state whose bytes are below and above 16: 2, 10, 18, 26, ...
C26_Witness ==
    /\ IsGenerateCall(last)
    /\ last.args.array = [i \in 1..StateBytes |-> (i * 8 + 250) % 256]
    /\ ~last.args.webCrypto
    /\ SubSeq(last.value.state, 1, 8) = "020a121a"

QueryNames == <<"client_id", "redirect_uri", "response_type", "scope", "state">>

\* the URL has each of the five parameters, in that order and nothing after
\* the state
InOrder(url) ==
    /\ \A k \in 1..5 : ParamStarts(url, QueryNames[k]) # {}
    /\ \A k \in 1..4 :
         Least(ParamStarts(url, QueryNames[k])) < Least(ParamStarts(url, QueryNames[k + 1]))
    /\ \A k \in Least(ParamStarts(url, "state"))..Len(url) : CharAt(url, k) # "&"

\* C27 as stated: the authorization URL is <baseUrl>/oauth/authorize? followed
\* by client_id, redirect_uri, response_type, scope and state in that order;
\* response_type is "code" and scope is "openid profile email" when the caller
\* gives none; clientId and redirectUri come back unmodified from the query;
\* with clientId c1, redirectUri https://app.test/cb and nothing else the query
\* is the one of the scenario, ending in a state of 64 hex characters.
C27_AsStated ==
    IsAuthorizationUrlReturned(last)
        => LET url == ReturnedUrl(last)
               params == last.args.params
               start == config.baseUrl \o "/oauth/authorize?client_id="
               scenario == config.baseUrl \o "/oauth/authorize?client_id=c1"
                             \o "&redirect_uri=https%3A%2F%2Fapp.test%2Fcb"
                             \o "&response_type=code&scope=openid+profile+email&state="
           IN
           /\ SubSeq(url, 1, Len(start)) = start
           /\ InOrder(url)
           /\ UrlParam(url, "client_id") = params.clientId
           /\ UrlParam(url, "redirect_uri") = params.redirectUri
           /\ params.responseType = UNDEF => UrlParam(url, "response_type") = "code"
           /\ params.responseType # UNDEF
                => UrlParam(url, "response_type") = params.responseType
           /\ params.scope = UNDEF => UrlParam(url, "scope") = "openid profile email"
           /\ params.scope # UNDEF => UrlParam(url, "scope") = params.scope
           /\ (/\ params.redirectUri = "https://app.test/cb"
               /\ params.responseType = UNDEF
               /\ params.scope = UNDEF
               /\ params.state = UNDEF)
                => (/\ SubSeq(url, 1, Len(scenario)) = scenario
                    /\ Len(url) = Len(scenario) + 64
                    /\ \A k \in (Len(scenario) + 1)..Len(url) : CharAt(url, k) \in HexChars)

OAuthErrorOf(e) == PlainError("OAuth error: " \o ReceivedError(e))

FailsWith(error) ==
    /\ last'.outcome = "rejected"
    /\ last'.error = error
    /\ NothingSent

\* C28 as stated: handleCallback checks the provider error, then the code,
\* then the state, then exchanges: a callback with both `error` and `code`
\* fails with the OAuth error and nothing is sent; a callback with no `code`
\* and a state that is missing or differs from the originalState supplied
\* fails with "authorization code not found", not with the CSRF error; the
\* exchange is sent only when all three checks passed.
C28_AsStated ==
    [][IsCallbackCall(last')
       => (/\ (ReceivedError(last') # NULL /\ ReceivedCode(last') # NULL)
                => FailsWith(OAuthErrorOf(last'))
           /\ (/\ ReceivedCode(last') = NULL
               /\ last'.args.originalState # UNDEF
               /\ ReceivedState(last') # last'.args.originalState)
                => FailsWith(CodeNotFound)
           /\ last'.outcome = "pending"
                => (/\ ReceivedError(last') = NULL
                    /\ ReceivedCode(last') # NULL
                    /\ last'.args.originalState # UNDEF
                         => ReceivedState(last') = last'.args.originalState))]_vars

\* C28 amended: a callback with a non-empty `error` fails with the OAuth error
\* and nothing is sent, whether or not it has a code; a callback with no
\* non-empty `error` and no non-empty `code` fails with "authorization code
\* not found", not with the CSRF error, whatever its state and the
\* originalState supplied; the exchange is sent, as one request, only when
\* there is no non-empty error, there is a non-empty code, and the state is
\* the non-empty originalState supplied or none was supplied.
C28_CheckOrder ==
    [][IsCallbackCall(last')
       => (/\ Truthy(ReceivedError(last')) => FailsWith(OAuthErrorOf(last'))
           /\ (~Truthy(ReceivedError(last')) /\ ~Truthy(ReceivedCode(last')))
                => FailsWith(CodeNotFound)
           /\ last'.outcome = "pending"
                => (/\ ~Truthy(ReceivedError(last'))
                    /\ Truthy(ReceivedCode(last'))
                    /\ Truthy(last'.args.originalState)
                         => ReceivedState(last') = last'.args.originalState
                    /\ OneMoreRequest))]_vars

\* a callback without code whose state differs from the originalState was
\* refused for the missing code
C28_Witness ==
    /\ IsCallbackCall(last)
    /\ ReceivedError(last) = NULL
    /\ ReceivedCode(last) = NULL
    /\ ReceivedState(last) = "WRONG"
    /\ last.args.originalState = "S"
    /\ last.outcome = "rejected"
    /\ last.error = CodeNotFound

\* the request the step handed to axios
NewRequest == requests'[CHOOSE i \in Slots : requests[i].phase = "free" /\ requests'[i].phase # "free"]

\* the step posted one token request for the callback: its code, the given
\* clientId, grant type authorization_code, and `redirectUri` as redirectUri
ExchangePosted(e, redirectUri) ==
    /\ e.outcome = "pending"
    /\ OneMoreRequest
    /\ NewRequest.method = "POST"
    /\ NewRequest.url = "/oauth/token"
    /\ NewRequest.data.code = ReceivedCode(e)
    /\ NewRequest.data.clientId = e.args.clientId
    /\ NewRequest.data.grant_type = "authorization_code"
    /\ NewRequest.data.redirectUri = redirectUri

CallbackAddress(e) == e.args.url.origin \o e.args.url.pathname

IsCallbackSettle(e) == e.op = "handleCallback" /\ e.step = "settle"

\* C29 as stated: a callback with a code, no error and a state that matches
\* the originalState supplied posts exactly one token request with the code,
\* the clientId, grant type authorization_code and the caller's redirectUri
\* when supplied, else origin + path of the callback URL; handleCallback then
\* resolves with the response and the facade is authenticated with the token
\* of that response.
C29_AsStated ==
    [][/\ (/\ IsCallbackCall(last')
           /\ ReceivedCode(last') # NULL
           /\ ReceivedError(last') = NULL
           /\ last'.args.originalState # UNDEF
           /\ ReceivedState(last') = last'.args.originalState)
            => ExchangePosted(last', IF last'.args.redirectUri # UNDEF
                                       THEN last'.args.redirectUri
                                       ELSE CallbackAddress(last'))
       /\ (IsCallbackSettle(last') /\ Axios(last').kind = "fulfilled")
            => (/\ last'.outcome = "resolved"
                /\ last'.value = Axios(last').data
                /\ accessToken' = Axios(last').data.access_token
                /\ Truthy(accessToken'))]_vars

\* C29 amended: a callback with a non-empty code, no non-empty error and a
\* state equal to the non-empty originalState supplied posts exactly one
\* token request with the code, the clientId, grant type authorization_code
\* and the caller's redirectUri when that is non-empty, else origin + path of
\* the callback URL; when the response carries a non-empty access_token,
\* handleCallback resolves with the response and the facade is authenticated
\* with that token.
C29_Exchange ==
    [][/\ (/\ IsCallbackCall(last')
           /\ Truthy(ReceivedCode(last'))
           /\ ~Truthy(ReceivedError(last'))
           /\ Truthy(last'.args.originalState)
           /\ ReceivedState(last') = last'.args.originalState)
            => ExchangePosted(last', IF Truthy(last'.args.redirectUri)
                                       THEN last'.args.redirectUri
                                       ELSE CallbackAddress(last'))
       /\ (/\ IsCallbackSettle(last')
           /\ Axios(last').kind = "fulfilled"
           /\ Truthy(Axios(last').data.access_token))
            => (/\ last'.outcome = "resolved"
                /\ last'.value = Axios(last').data
                /\ accessToken' = Axios(last').data.access_token
                /\ isAuthenticated')]_vars

\* the token request of a callback that named its redirectUri is waiting
C29_Witness ==
    /\ IsCallbackCall(last)
    /\ last.outcome = "pending"
    /\ last.args.originalState = "S"
    /\ last.args.redirectUri = "https://app.test/other"
    /\ requests[1].phase = "queued"
    /\ requests[1].data.code = "abc"
    /\ requests[1].data.redirectUri = "https://app.test/other"

Clearers == {"clearAuth", "client.clearAccessToken"}

\* the response of the login, exchange or refresh of slot j arrives next
WriterSettle(j) == (LoginSettled \/ TokenSettled) /\ last'.slot = j

\* the slot is empty while a login, exchange or refresh has been sent
StaleWriter(j) ==
    /\ accessToken = NULL
    /\ requests[j].op \in Writers
    /\ requests[j].phase = "sent"

\* C30: clearing the token, by clearAuth or by logout, cancels no request: the
\* requests in flight stay as they are; and a login, exchange or refresh that
\* has been sent can still have its response arrive while the slot is empty,
\* and a response that carries a token then installs it, so the instance is
\* authenticated again without any call after the clear.
C30_StaleInstall ==
    /\ [](\A j \in Slots :
            (Ready /\ StaleWriter(j))
                => ENABLED (/\ WriterSettle(j)
                            /\ last'.outcome = "resolved"
                            /\ accessToken' = last'.value.access_token
                            /\ isAuthenticated'))
    /\ [][/\ (last'.step = "call" /\ last'.op \in Clearers)
               => (accessToken' = NULL /\ requests' = requests)
          /\ (last'.step = "settle" /\ last'.op = "logout")
               => (/\ accessToken' = NULL
                   /\ \A j \in Slots \ {last'.slot} : requests'[j] = requests[j])
          /\ (/\ accessToken = NULL
              /\ Resolved(last', Writers)
              /\ Truthy(last'.value.access_token))
               => (accessToken' = last'.value.access_token /\ isAuthenticated')]_vars

\* clearAuth has just emptied the slot while a login that was sent with the
\* token of that time is still in flight
C30_Witness ==
    /\ last.op = "clearAuth"
    /\ accessToken = NULL
    /\ requests[1].op = "login"
    /\ requests[1].phase = "sent"
    /\ requests[1].authorization = "Bearer t1"

\* the logout request of slot i has been sent and the slot has been written
\* since: it holds a token the request was not sent with
NewerToken(i) ==
    /\ requests[i].op = "logout"
    /\ requests[i].phase = "sent"
    /\ Truthy(accessToken)
    /\ Authorization(accessToken) # requests[i].authorization

\* the response of the logout request of slot i arrives next
LogoutSettle(i, outcome) ==
    LogoutSettled /\ last'.slot = i /\ last'.outcome = outcome

\* C31: when a logout request settles, resolved or rejected, the slot is null
\* and the instance unauthenticated whatever the slot held, a token installed
\* after the request was sent included; and a logout in flight can always
\* settle either way while such a newer token is in the slot.
C31_LogoutClearsNewer ==
    /\ [](\A i \in Slots :
            (Ready /\ NewerToken(i))
                => /\ ENABLED (LogoutSettle(i, "resolved") /\ ~isAuthenticated')
                   /\ ENABLED (LogoutSettle(i, "rejected") /\ ~isAuthenticated'))
    /\ [][(last'.step = "settle" /\ last'.op = "logout")
            => (accessToken' = NULL /\ ~isAuthenticated')]_vars

\* a logout sent with t1 has settled with a failure and the slot is null; the
\* request of slot 2 was sent meanwhile with t2, the token installed while
\* the logout was in flight
C31_Witness ==
    /\ last.op = "logout"
    /\ last.step = "settle"
    /\ last.outcome = "rejected"
    /\ last.slot = 1
    /\ accessToken = NULL
    /\ requests[2].phase = "sent"
    /\ requests[2].authorization = "Bearer t2"

\* slot i holds a logout request that has not settled
LogoutInFlight(i) == requests[i].op = "logout" /\ requests[i].phase \in {"queued", "sent"}

\* the logout request of slot i is in flight before and after the step
LogoutStaysInFlight(i) == LogoutInFlight(i) /\ requests'[i] # NoRequest

SlotCalls == {"setAccessToken", "client.setAccessToken"} \cup Clearers

\* the step belongs to an operation other than the logout of slot i and is
\* one that writes the slot: a set or clear call, or the settling of a
\* login, exchange, refresh or other logout
OtherWriteStep(i) ==
    \/ last'.step = "call" /\ last'.op \in SlotCalls
    \/ /\ last'.step = "settle"
       /\ last'.op \in Writers \cup {"logout"}
       /\ last'.slot # i

\* C32 as stated: the logout request is dispatched with the bearer token of
\* the slot, and while the request is in flight a slot that is set stays set.
C32_AsStated ==
    [][\A i \in Slots :
         /\ (LogoutInFlight(i) /\ Dispatched(i) /\ accessToken # NULL)
              => requests'[i].authorization = "Bearer " \o accessToken
         /\ (LogoutStaysInFlight(i) /\ accessToken # NULL) => accessToken' # NULL
      ]_vars

\* C32 amended: calling logout hands over one POST /auth/logout and leaves
\* the slot as it is; the request is dispatched with the bearer token the
\* slot holds at that moment (none when the slot is null or empty), and so is
\* every request dispatched while the logout is in flight; between its call
\* and its settling the logout does not write the slot, which changes only by
\* a step of another operation; the settling of the logout sets it to null.
C32_LogoutOrdering ==
    [][/\ (last'.step = "call" /\ last'.op = "logout")
            => /\ accessToken' = accessToken
               /\ \E i \in Slots :
                    /\ requests[i] = NoRequest
                    /\ requests'[i].phase = "queued"
                    /\ requests'[i].method = "POST"
                    /\ requests'[i].url = "/auth/logout"
       /\ \A i \in Slots :
            /\ Dispatched(i)
                 => /\ requests'[i].authorization = Authorization(accessToken)
                    /\ accessToken' = accessToken
            /\ (LogoutStaysInFlight(i) /\ accessToken' # accessToken) => OtherWriteStep(i)
            /\ (LogoutInFlight(i) /\ requests'[i] = NoRequest)
                 => /\ requests[i].phase = "sent"
                    /\ last'.step = "settle" /\ last'.op = "logout" /\ last'.slot = i
                    /\ accessToken' = NULL
      ]_vars

\* the logout request was sent with t1, the slot still holds t1, and the
\* request of the other slot has just been dispatched with it
C32_Witness ==
    /\ LogoutInFlight(1)
    /\ requests[1].authorization = "Bearer t1"
    /\ accessToken = "t1"
    /\ last.step = "intercept"
    /\ last.slot = 2
    /\ requests[2].op = "client.get"
    /\ requests[2].authorization = "Bearer t1"

\* the token endpoint answered the exchange or refresh with a success whose
\* access_token is empty or absent
AnsweredWithoutToken(e) ==
    /\ IsSettle(e)
    /\ e.op \in TokenOps
    /\ Axios(e).kind = "fulfilled"
    /\ ~Truthy(Axios(e).data.access_token)

\* C33 as stated: when the token endpoint answers a code exchange or refresh
\* successfully but with an empty or absent access_token, the operation
\* resolves with that response, signals no error and leaves the token slot as
\* it was.
C33_AsStated ==
    [][AnsweredWithoutToken(last')
         => /\ last'.outcome = "resolved"
            /\ last'.error = NoError
            /\ last'.value = Axios(last').data
            /\ accessToken' = accessToken]_vars

\* the same for every answer other than the JSON value null: an object whose
\* access_token is "", null or not there
C33_ObjectWithoutToken ==
    [][(AnsweredWithoutToken(last') /\ Axios(last').data.type # "null")
         => /\ last'.outcome = "resolved"
            /\ last'.error = NoError
            /\ last'.value = Axios(last').data
            /\ accessToken' = accessToken]_vars

====
